---------------------------- MODULE Spec2Model ----------------------------
(***************************************************************************)
(* A model of the astrological computation engines of the repository:     *)
(* divisional charts (varga.py), Vimshottari dasha (dasha.py),            *)
(* Ashtakavarga (ashtakavarga.py), Shadbala (strength.py), Panchang       *)
(* (panchang.py), the sunrise/sunset helpers (ephemeris.py) and the       *)
(* activity predictor (ai.py).                                            *)
(*                                                                         *)
(* Numbers.  The code computes with IEEE doubles and with datetime /      *)
(* timedelta, which keep whole microseconds.  The model computes with     *)
(* whole numbers:                                                          *)
(*   - an angle is a whole number of units, UnitsPerDegree to the degree; *)
(*     the resolution is chosen so that every width 30/n of a divisional  *)
(*     part and the 13deg20' nakshatra width are whole.  A width a double *)
(*     cannot hold (30.0/9, 13 + 20/60, ...) is a double slightly above   *)
(*     or below the exact width; FloorDivFloat and ModFloat divide by it  *)
(*     as the code does: a longitude lying exactly on a multiple of a     *)
(*     width that is rounded up falls short of that multiple.  One unit   *)
(*     stands for the step between neighbouring doubles;                  *)
(*   - an instant or a duration is a whole number of ticks, and a         *)
(*     duration computed from a quotient is rounded to the nearest tick,  *)
(*     ties to even, as timedelta rounds to the microsecond.              *)
(***************************************************************************)
EXTENDS Integers, Sequences, FiniteSets, TLC

VARIABLES
    op,     \* the engine operation under way
    pc,     \* "call" until it has run, "done" once it has returned
    arg,    \* the arguments it is called with
    ret     \* what it returned (<< >> until it has)

vars == <<op, pc, arg, ret>>

-----------------------------------------------------------------------------
(* Arithmetic of the number representation *)

\* Units to the degree: 30 * UnitsPerDegree is the least common multiple of
\* the 20 division numbers, and 40/3 degree is whole as well.
UnitsPerDegree == (16 * 27 * 5 * 7 * 11) \div 30

Deg(d) == d * UnitsPerDegree

\* One eighth of a degree; a longitude that is a whole number of eighths is a
\* double exactly.
Eighth == UnitsPerDegree \div 8

FullCircle == Deg(360)

Abs(x) == IF x < 0 THEN -x ELSE x

Min(a, b) == IF a <= b THEN a ELSE b

Max(a, b) == IF a >= b THEN a ELSE b

\* a / b (b > 0, a >= 0) rounded to the nearest whole number, ties to even.
RoundHalfEven(a, b) ==
    LET q == a \div b
        r == a % b
    IN  IF 2 * r < b THEN q
        ELSE IF 2 * r > b THEN q + 1
        ELSE IF q % 2 = 0 THEN q ELSE q + 1

\* The side on which the double nearest to 30/n lies: +1 above, -1 below,
\* 0 when 30/n is a double exactly.
FloatRounding(n) ==
    CASE n \in {9, 27} -> 1
      [] n \in {7, 11, 45} -> -1
      [] OTHER -> 0

\* x // w for a double x >= 0 and the double w nearest to the exact width
\* `exact', which lies on side `side' of it.
FloorDivFloat(x, exact, side) ==
    IF side > 0 /\ x > 0 /\ x % exact = 0
    THEN (x \div exact) - 1
    ELSE x \div exact

\* x % w, likewise: just short of a whole width where x // w falls short.
ModFloat(x, exact, side) ==
    IF side > 0 /\ x > 0 /\ x % exact = 0
    THEN exact - 1
    ELSE x % exact

-----------------------------------------------------------------------------
(* varga.py: divisional charts *)

ZODIAC_SIGNS ==
    << "Aries", "Taurus", "Gemini", "Cancer", "Leo", "Virgo", "Libra",
       "Scorpio", "Sagittarius", "Capricorn", "Aquarius", "Pisces" >>

SIGN_RULERS ==
    [ Aries |-> "Mars", Taurus |-> "Venus", Gemini |-> "Mercury",
      Cancer |-> "Moon", Leo |-> "Sun", Virgo |-> "Mercury",
      Libra |-> "Venus", Scorpio |-> "Mars", Sagittarius |-> "Jupiter",
      Capricorn |-> "Saturn", Aquarius |-> "Saturn", Pisces |-> "Jupiter" ]

\* The sign with 0-based index i.
SignName(i) == ZODIAC_SIGNS[i + 1]

\* index of a sign name, 0-based (ZODIAC_SIGNS.index)
SignIndexOf(sign) == (CHOOSE i \in 1..12 : ZODIAC_SIGNS[i] = sign) - 1

\* int((longitude % 360) // 30)
SignIndex(longitude) == (longitude % FullCircle) \div Deg(30)

\* degrees_in_part = 30.0 / division: the exact width of a part
DegreesInPart(division) == Deg(30) \div division

\* int(((longitude % 30.0) // degrees_in_part) % division)
NthPart(longitude, division) ==
    FloorDivFloat(longitude % Deg(30), DegreesInPart(division),
                  FloatRounding(division)) % division

rasi(longitude) == SignName(SignIndex(longitude))

drekkana(longitude) ==
    LET sign == SignIndex(longitude)
        part == NthPart(longitude, 3)
        target == (sign + part * 4) % 12
    IN  SignName(target)

navamsa(longitude) ==
    LET sign == SignIndex(longitude)
        part == NthPart(longitude, 9)
        target == (sign * 9 + part) % 12
    IN  SignName(target)

UniformDivision(longitude, division, offset) ==
    LET sign == SignIndex(longitude)
        part == NthPart(longitude, division)
        target == (sign * division + part + offset) % (12 * division)
        target_sign == (target \div division) % 12
    IN  SignName(target_sign)

\* The keys of get_varga's mapping, in the order of VargaCalculator's default.
DefaultDivisions ==
    << "D1", "D2", "D3", "D4", "D5", "D6", "D7", "D8", "D9", "D10", "D11",
       "D12", "D16", "D20", "D24", "D27", "D30", "D40", "D45", "D60" >>

\* int(name[1:]) for the identifiers of the mapping
DivisionNumber(name) ==
    CASE name = "D1" -> 1 [] name = "D2" -> 2 [] name = "D3" -> 3
      [] name = "D4" -> 4 [] name = "D5" -> 5 [] name = "D6" -> 6
      [] name = "D7" -> 7 [] name = "D8" -> 8 [] name = "D9" -> 9
      [] name = "D10" -> 10 [] name = "D11" -> 11 [] name = "D12" -> 12
      [] name = "D16" -> 16 [] name = "D20" -> 20 [] name = "D24" -> 24
      [] name = "D27" -> 27 [] name = "D30" -> 30 [] name = "D40" -> 40
      [] name = "D45" -> 45 [] name = "D60" -> 60

\* get_varga(name)(longitude)
GetVarga(name, longitude) ==
    CASE name = "D1" -> rasi(longitude)
      [] name = "D3" -> drekkana(longitude)
      [] name = "D9" -> navamsa(longitude)
      [] OTHER -> UniformDivision(longitude, DivisionNumber(name), 0)

\* A plausible slip: the remainder taken within the sign, not within the part.
DegreeInVargaWholeSign(longitude, division_number) ==
    (longitude % Deg(30)) * division_number

\* VargaCalculator._degree_in_varga: (longitude % span) / span * 30.0 with
\* span = 30.0 / division_number; 30 degrees are division_number spans.
DegreeInVarga(longitude, division_number) ==
    LET span == DegreesInPart(division_number)
        fractional_times_span ==
            ModFloat(longitude, span, FloatRounding(division_number))
    IN  fractional_times_span * division_number

SeqToSet(s) == { s[i] : i \in DOMAIN s }

\* VargaCalculator(divisions).compute(planetary_longitudes)
VargaCompute(divisions, planetary_longitudes) ==
    [ division \in SeqToSet(divisions) |->
        [ planet \in DOMAIN planetary_longitudes |->
            LET lon == planetary_longitudes[planet]
                sign == GetVarga(division, lon)
            IN  [ planet |-> planet,
                  sign |-> sign,
                  degree |-> DegreeInVarga(lon, DivisionNumber(division)),
                  ruler |-> SIGN_RULERS[sign],
                  division |-> division ] ] ]

\* VargaCalculator.compute_summary: the sign names only
VargaSummary(divisions, planetary_longitudes) ==
    LET detailed == VargaCompute(divisions, planetary_longitudes)
    IN  [ division \in DOMAIN detailed |->
            [ planet \in DOMAIN detailed[division] |->
                detailed[division][planet].sign ] ]

\* Longitudes in [0, 360) that are doubles exactly: the whole eighths.
EighthLongitudes == { k * Eighth : k \in 0 .. (360 * 8 - 1) }

\* The division tuples the repository constructs a VargaCalculator with:
\* the default, the predictor's, and the test's.
DivisionTuples == { DefaultDivisions, << "D1", "D9" >>, << "D9" >> }

VargaInputs ==
    { [ Sun |-> l ] : l \in EighthLongitudes }
    \cup { [ Sun |-> l, Moon |-> m ] :
             l \in EighthLongitudes, m \in { Deg(10), Deg(360) - Eighth } }

InitVarga ==
    /\ op = "varga"
    /\ pc = "call"
    /\ arg \in { [ divisions |-> d, planetary_longitudes |-> l ] :
                    d \in DivisionTuples, l \in VargaInputs }
    /\ ret = << >>

ComputeVarga ==
    /\ op = "varga" /\ pc = "call"
    /\ ret' = VargaCompute(arg.divisions, arg.planetary_longitudes)
    /\ pc' = "done"
    /\ UNCHANGED <<op, arg>>

SpecVarga == InitVarga /\ [][ComputeVarga]_vars

\* The placements a finished compute call returned, as a set.
Placements ==
    IF op = "varga" /\ pc = "done"
    THEN { ret[division][planet] :
             division \in DOMAIN ret, planet \in DOMAIN arg.planetary_longitudes }
    ELSE {}

\* C1: for every supported division and every longitude in [0, 360), the
\* placement compute returns has a sign among the 12 zodiac signs and a
\* degree with 0 <= degree < 30.
VargaPlacementInRange ==
    \A placement \in Placements :
        /\ placement.sign \in SeqToSet(ZODIAC_SIGNS)
        /\ SignIndexOf(placement.sign) \in 0 .. 11
        /\ 0 <= placement.degree
        /\ placement.degree < Deg(30)

\* C1's case: all 20 divisions computed for a longitude at the end of the
\* zodiac, the D60 placement inside its last part and in the last sign.
VargaPlacementComputed ==
    /\ op = "varga" /\ pc = "done"
    /\ arg.divisions = DefaultDivisions
    /\ arg.planetary_longitudes.Sun = Deg(360) - Eighth
    /\ ret["D60"].Sun.sign = "Pisces"
    /\ ret["D60"].Sun.degree = Deg(30) - 60 * Eighth
    /\ ret["D9"].Sun.degree > Deg(28)

\* The part of a sign, n parts to the sign, that contains a longitude: part p
\* is the longitudes from p widths (included) to p + 1 widths (excluded).
PartContaining(longitude, n) ==
    CHOOSE p \in 0 .. (n - 1) :
        /\ p * Deg(30) <= n * (longitude % Deg(30))
        /\ n * (longitude % Deg(30)) < (p + 1) * Deg(30)

\* C2: D1 is the sign with index s = floor((L mod 360) / 30), D3 the sign
\* with index (s + 4p) mod 12 for the 10-degree part p containing L, and D9
\* the sign with index (9s + p) mod 12 for the 3deg20' part p containing L;
\* navamsa(0) is Aries, drekkana(150) Virgo and drekkana(160) Capricorn.
VargaSignsFollowParts ==
    /\ navamsa(Deg(0)) = "Aries"
    /\ drekkana(Deg(150)) = "Virgo"
    /\ drekkana(Deg(160)) = "Capricorn"
    /\ \A placement \in Placements :
          LET L == arg.planetary_longitudes[placement.planet]
              s == (L % Deg(360)) \div Deg(30)
          IN  /\ placement.division = "D1" => placement.sign = SignName(s)
              /\ placement.division = "D3" =>
                    placement.sign = SignName((s + 4 * PartContaining(L, 3)) % 12)
              /\ placement.division = "D9" =>
                    placement.sign = SignName((9 * s + PartContaining(L, 9)) % 12)

-----------------------------------------------------------------------------
(* dasha.py: Vimshottari dasha *)

\* 13 + 20 / 60 degrees: the exact width of a nakshatra
NAKSHATRA_DEGREES == Deg(40) \div 3

\* The double 13 + 20 / 60 lies above 40/3.
NakshatraRounding == 1

DASHA_ORDER ==
    << "Ketu", "Venus", "Sun", "Moon", "Mars", "Rahu", "Jupiter", "Saturn",
       "Mercury" >>

DASHA_YEARS ==
    [ Ketu |-> 7, Venus |-> 20, Sun |-> 6, Moon |-> 10, Mars |-> 7,
      Rahu |-> 18, Jupiter |-> 16, Saturn |-> 19, Mercury |-> 17 ]

\* Ticks in timedelta(days=365.25).  The real year is a multiple of
\* 8 * 120 * 120 microseconds: a full allotment divides by 120 twice without
\* remainder, and the balance left at a whole eighth of a degree divides by
\* 120 once.  The model's year keeps that.
TicksPerYear == 8 * 120 * 120

RECURSIVE GCD(_, _)
GCD(a, b) == IF b = 0 THEN a ELSE GCD(b, a % b)

\* a * b / c rounded half-even, without forming a * b where b, c share factors
MulDivRound(a, b, c) ==
    LET g == GCD(b, c) IN RoundHalfEven(a * (b \div g), c \div g)

\* The side on which the double years / 120.0 lies of the exact quotient.
ProportionRounding(years) == IF years \in {6, 7} THEN 1 ELSE -1

\* duration * proportion with proportion = years / 120.0: timedelta * float
\* rounds the exact product with the double to the nearest tick.
TimesProportion(duration, years) ==
    LET q == (duration * years) \div 120
        r == (duration * years) % 120
    IN  IF 2 * r < 120 THEN q
        ELSE IF 2 * r > 120 THEN q + 1
        ELSE IF ProportionRounding(years) > 0 THEN q + 1 ELSE q

\* sum(DASHA_YEARS[DASHA_ORDER[i]] for i in range(k)), k = 0 .. 9
RECURSIVE YearsBefore(_)
YearsBefore(k) ==
    IF k = 0 THEN 0 ELSE YearsBefore(k - 1) + DASHA_YEARS[DASHA_ORDER[k]]

RECURSIVE Flatten(_)
Flatten(seqs) == IF seqs = << >> THEN << >> ELSE Head(seqs) \o Flatten(Tail(seqs))
\* A plausible slip: a sub-period carries its own lord as its parent.
RECURSIVE SubDashasOwnLord(_, _)
SubDashasOwnLord(parent_period, levels) ==
    LET duration == parent_period.end - parent_period.start
        Sub(i) ==
            LET lord == DASHA_ORDER[i]
                start == parent_period.start
                           + RoundHalfEven(duration * YearsBefore(i - 1), 120)
                end == start + TimesProportion(duration, DASHA_YEARS[lord])
                period == [ lord |-> lord, start |-> start, end |-> end,
                            level |-> parent_period.level + 1,
                            parent |-> lord ]
            IN  << period >>
                  \o (IF levels > 1 THEN SubDashasOwnLord(period, levels - 1)
                      ELSE << >>)
    IN  Flatten([ i \in 1 .. 9 |-> Sub(i) ])

RECURSIVE SubDashas(_, _)
SubDashas(parent_period, levels) ==
    LET duration == parent_period.end - parent_period.start
        Sub(i) ==
            LET lord == DASHA_ORDER[i]
                start == parent_period.start
                           + RoundHalfEven(duration * YearsBefore(i - 1), 120)
                end == start + TimesProportion(duration, DASHA_YEARS[lord])
                period == [ lord |-> lord, start |-> start, end |-> end,
                            level |-> parent_period.level + 1,
                            parent |-> parent_period.lord ]
            IN  << period >>
                  \o (IF levels > 1 THEN SubDashas(period, levels - 1) ELSE << >>)
    IN  Flatten([ i \in 1 .. 9 |-> Sub(i) ])

\* compute_vimshottari(moon_longitude, birth_datetime, levels)
ComputeVimshottari(moon_longitude, birth_datetime, levels) ==
    LET nakshatra_index ==
            FloorDivFloat(moon_longitude, NAKSHATRA_DEGREES, NakshatraRounding)
        \* balance * NAKSHATRA_DEGREES
        ahead == (nakshatra_index + 1) * NAKSHATRA_DEGREES - moon_longitude
        first == nakshatra_index % Len(DASHA_ORDER)
        LordAt(k) == DASHA_ORDER[((first + k - 1) % Len(DASHA_ORDER)) + 1]
        Duration(k) ==
            IF k = 1
            THEN MulDivRound(DASHA_YEARS[LordAt(1)] * ahead, TicksPerYear,
                             NAKSHATRA_DEGREES)
            ELSE DASHA_YEARS[LordAt(k)] * TicksPerYear
        end[k \in 0 .. 9] ==
            IF k = 0 THEN birth_datetime ELSE end[k - 1] + Duration(k)
        periods == [ k \in 1 .. 9 |->
                       [ lord |-> LordAt(k), start |-> end[k - 1], end |-> end[k],
                         level |-> 1, parent |-> "None" ] ]
    IN  IF levels > 1
        THEN periods \o Flatten([ k \in 1 .. 9 |-> SubDashas(periods[k], levels - 1) ])
        ELSE periods

\* Moon longitudes: the whole and half degrees (doubles exactly, the
\* multiples of 40 degrees lying on a nakshatra boundary) and longitudes off
\* that grid.
MoonLongitudes ==
    { 4 * k * Eighth : k \in 0 .. 719 } \cup { Deg(3 * k) + 1237 : k \in 0 .. 119 }

BirthInstants == { 0, 1001 }

InitDasha ==
    /\ op = "dasha"
    /\ pc = "call"
    /\ arg \in { [ moon_longitude |-> m, birth_datetime |-> b, levels |-> l ] :
                    m \in MoonLongitudes, b \in BirthInstants, l \in 0 .. 3 }
    /\ ret = << >>

ComputeDasha ==
    /\ op = "dasha" /\ pc = "call"
    /\ ret' = ComputeVimshottari(arg.moon_longitude, arg.birth_datetime, arg.levels)
    /\ pc' = "done"
    /\ UNCHANGED <<op, arg>>

SpecDasha == InitDasha /\ [][ComputeDasha]_vars

\* Periods a sub-period of level `level' brings into the list: itself and
\* everything below it down to the requested depth.
RECURSIVE SubtreeSize(_, _)
SubtreeSize(level, levels) ==
    IF level >= levels THEN 1 ELSE 1 + 9 * SubtreeSize(level + 1, levels)

\* Where in the returned list the 9 sub-periods generated for periods[k] are.
\* The level-1 periods come first, the sub-periods of all of them after.
SubPeriodIndexes(k, level, levels) ==
    LET size == SubtreeSize(level + 1, levels)
        first == IF level = 1 THEN 9 + (k - 1) * 9 * size + 1 ELSE k + 1
    IN  [ i \in 1 .. 9 |-> first + (i - 1) * size ]

\* C3: for every returned period P whose level is below the requested depth,
\* the 9 sub-periods generated for P are contiguous: the first starts at
\* P.start, each ends where the next starts, the last ends at P.end, and
\* their durations sum to P.end - P.start.
SubPeriodsPartitionParent ==
    (op = "dasha" /\ pc = "done") =>
        \A k \in DOMAIN ret :
            ret[k].level < arg.levels =>
                LET at == SubPeriodIndexes(k, ret[k].level, arg.levels)
                    sub == [ i \in 1 .. 9 |-> ret[at[i]] ]
                    total[i \in 0 .. 9] ==
                        IF i = 0 THEN 0
                        ELSE total[i - 1] + (sub[i].end - sub[i].start)
                IN  /\ \A i \in 1 .. 9 :
                          /\ sub[i].level = ret[k].level + 1
                          /\ sub[i].parent = ret[k].lord
                    /\ sub[1].start = ret[k].start
                    /\ \A i \in 1 .. 8 : sub[i].end = sub[i + 1].start
                    /\ sub[9].end = ret[k].end
                    /\ total[9] = ret[k].end - ret[k].start

\* C4: the first period has level 1, starts at the birth instant, has lord
\* DASHA_ORDER[floor(m / 13deg20') mod 9] and lasts the fraction of the
\* nakshatra arc still ahead of m times that lord's years: strictly less
\* than the full allotment unless m lies exactly on a nakshatra boundary,
\* where it equals the full allotment.
FirstPeriodIsBalance ==
    (op = "dasha" /\ pc = "done") =>
        LET m == arg.moon_longitude
            lord == DASHA_ORDER[((m \div NAKSHATRA_DEGREES) % 9) + 1]
            ahead == NAKSHATRA_DEGREES - (m % NAKSHATRA_DEGREES)
            full == DASHA_YEARS[lord] * TicksPerYear
            lasts == ret[1].end - ret[1].start
        IN  /\ ret[1].level = 1
            /\ ret[1].start = arg.birth_datetime
            /\ ret[1].lord = lord
            /\ lasts = MulDivRound(DASHA_YEARS[lord] * ahead, TicksPerYear,
                                   NAKSHATRA_DEGREES)
            /\ (m % NAKSHATRA_DEGREES = 0) => lasts = full
            /\ (m % NAKSHATRA_DEGREES # 0) => lasts < full

-----------------------------------------------------------------------------
(* ashtakavarga.py: Bhinnashtakavarga and Sarvashtakavarga *)

\* planet -> contributor -> 12-house bindu pattern
SUN_ASHTAKA ==
    [
      Sun |-> << 1, 1, 0, 1, 0, 0, 1, 1, 1, 1, 1, 0 >>,
      Moon |-> << 0, 0, 1, 0, 0, 1, 0, 0, 0, 1, 1, 0 >>,
      Mars |-> << 1, 1, 0, 1, 0, 0, 1, 1, 1, 1, 1, 0 >>,
      Mercury |-> << 0, 0, 1, 0, 1, 1, 0, 0, 1, 1, 1, 1 >>,
      Jupiter |-> << 0, 0, 0, 0, 1, 1, 0, 0, 1, 0, 1, 1 >>,
      Venus |-> << 0, 0, 0, 0, 0, 0, 1, 0, 0, 0, 0, 1 >>,
      Saturn |-> << 1, 1, 0, 1, 0, 0, 1, 1, 1, 1, 1, 0 >>,
      Asc |-> << 0, 0, 1, 1, 0, 1, 0, 0, 0, 1, 1, 1 >> ]

MOON_ASHTAKA ==
    [
      Sun |-> << 0, 0, 1, 0, 0, 1, 0, 0, 0, 1, 1, 0 >>,
      Moon |-> << 1, 0, 0, 1, 0, 1, 0, 0, 1, 1, 0, 1 >>,
      Mars |-> << 1, 1, 0, 1, 0, 0, 1, 1, 1, 1, 0, 0 >>,
      Mercury |-> << 0, 1, 0, 0, 1, 1, 0, 0, 1, 1, 1, 0 >>,
      Jupiter |-> << 0, 0, 0, 0, 1, 1, 0, 1, 1, 0, 1, 1 >>,
      Venus |-> << 0, 0, 1, 0, 0, 0, 1, 0, 0, 0, 1, 1 >>,
      Saturn |-> << 1, 0, 0, 1, 0, 0, 1, 1, 1, 1, 0, 0 >>,
      Asc |-> << 0, 0, 1, 1, 0, 1, 0, 0, 0, 1, 1, 1 >> ]

MARS_ASHTAKA ==
    [
      Sun |-> << 1, 1, 0, 1, 0, 0, 1, 1, 1, 1, 1, 0 >>,
      Moon |-> << 0, 0, 1, 0, 0, 1, 0, 0, 0, 1, 1, 0 >>,
      Mars |-> << 1, 1, 0, 1, 0, 0, 1, 1, 1, 1, 1, 0 >>,
      Mercury |-> << 0, 0, 1, 0, 1, 1, 0, 0, 1, 1, 1, 0 >>,
      Jupiter |-> << 0, 0, 0, 0, 1, 1, 0, 0, 1, 0, 1, 1 >>,
      Venus |-> << 0, 0, 0, 0, 0, 0, 1, 0, 0, 0, 1, 1 >>,
      Saturn |-> << 1, 1, 0, 1, 0, 0, 1, 1, 1, 1, 1, 0 >>,
      Asc |-> << 0, 0, 1, 1, 0, 1, 0, 0, 0, 1, 1, 1 >> ]

MERCURY_ASHTAKA ==
    [
      Sun |-> << 1, 0, 0, 1, 0, 1, 0, 0, 0, 1, 1, 0 >>,
      Moon |-> << 0, 1, 0, 0, 1, 1, 0, 0, 1, 1, 1, 0 >>,
      Mars |-> << 1, 1, 0, 1, 0, 0, 1, 1, 1, 1, 0, 0 >>,
      Mercury |-> << 1, 0, 1, 0, 1, 1, 0, 0, 1, 1, 1, 1 >>,
      Jupiter |-> << 0, 0, 0, 0, 1, 1, 0, 1, 1, 0, 1, 1 >>,
      Venus |-> << 0, 0, 1, 0, 0, 0, 1, 0, 0, 0, 1, 1 >>,
      Saturn |-> << 1, 0, 0, 1, 0, 0, 1, 1, 1, 1, 0, 0 >>,
      Asc |-> << 0, 0, 1, 1, 0, 1, 0, 0, 0, 1, 1, 1 >> ]

JUPITER_ASHTAKA ==
    [
      Sun |-> << 0, 0, 1, 0, 0, 1, 0, 0, 1, 1, 1, 0 >>,
      Moon |-> << 0, 1, 0, 0, 1, 1, 0, 0, 1, 1, 1, 0 >>,
      Mars |-> << 1, 1, 0, 1, 0, 0, 1, 1, 1, 1, 0, 0 >>,
      Mercury |-> << 0, 0, 1, 0, 1, 1, 0, 0, 1, 1, 1, 1 >>,
      Jupiter |-> << 1, 0, 0, 0, 1, 1, 0, 1, 1, 0, 1, 1 >>,
      Venus |-> << 0, 0, 1, 0, 0, 0, 1, 0, 0, 0, 1, 1 >>,
      Saturn |-> << 1, 0, 0, 1, 0, 0, 1, 1, 1, 1, 0, 0 >>,
      Asc |-> << 0, 0, 1, 1, 0, 1, 0, 0, 0, 1, 1, 1 >> ]

VENUS_ASHTAKA ==
    [
      Sun |-> << 0, 0, 1, 0, 0, 1, 0, 0, 1, 1, 0, 0 >>,
      Moon |-> << 0, 0, 1, 0, 1, 1, 0, 0, 1, 1, 1, 0 >>,
      Mars |-> << 1, 1, 0, 1, 0, 0, 1, 1, 1, 1, 0, 0 >>,
      Mercury |-> << 0, 1, 1, 0, 1, 1, 0, 0, 1, 1, 1, 1 >>,
      Jupiter |-> << 0, 0, 0, 0, 1, 1, 0, 1, 1, 0, 1, 1 >>,
      Venus |-> << 1, 0, 0, 0, 0, 0, 1, 0, 0, 0, 1, 1 >>,
      Saturn |-> << 1, 0, 0, 1, 0, 0, 1, 1, 1, 1, 0, 0 >>,
      Asc |-> << 0, 0, 1, 1, 0, 1, 0, 0, 0, 1, 1, 1 >> ]

SATURN_ASHTAKA ==
    [
      Sun |-> << 1, 1, 0, 1, 0, 0, 1, 1, 1, 1, 1, 0 >>,
      Moon |-> << 0, 0, 1, 0, 0, 1, 0, 0, 0, 1, 1, 0 >>,
      Mars |-> << 1, 1, 0, 1, 0, 0, 1, 1, 1, 1, 1, 0 >>,
      Mercury |-> << 0, 1, 0, 0, 1, 1, 0, 0, 1, 1, 1, 1 >>,
      Jupiter |-> << 0, 0, 0, 0, 1, 1, 0, 1, 1, 0, 1, 1 >>,
      Venus |-> << 0, 0, 1, 0, 0, 0, 1, 0, 0, 0, 1, 1 >>,
      Saturn |-> << 1, 0, 0, 1, 0, 0, 1, 1, 1, 1, 1, 0 >>,
      Asc |-> << 0, 0, 1, 1, 0, 1, 0, 0, 0, 1, 1, 1 >> ]

ASHTAKA_RULES ==
    [ Sun |-> SUN_ASHTAKA, Moon |-> MOON_ASHTAKA, Mars |-> MARS_ASHTAKA,
      Mercury |-> MERCURY_ASHTAKA, Jupiter |-> JUPITER_ASHTAKA,
      Venus |-> VENUS_ASHTAKA, Saturn |-> SATURN_ASHTAKA ]

\* self.planets
AshtakaPlanets ==
    << "Sun", "Moon", "Mars", "Mercury", "Jupiter", "Venus", "Saturn" >>

\* A plausible slip: the Total row summed into a frame that already has one.
ColumnSumWithTotalRow(frame, rows, column) ==
    LET sum[i \in 0 .. Len(rows)] ==
            IF i = 0 THEN 0 ELSE sum[i - 1] + frame[rows[i]][column]
    IN  2 * sum[Len(rows)]

\* DataFrame.sum() for one column: the sum over the frame's rows
ColumnSum(frame, rows, column) ==
    LET sum[i \in 0 .. Len(rows)] ==
            IF i = 0 THEN 0 ELSE sum[i - 1] + frame[rows[i]][column]
    IN  sum[Len(rows)]

\* AshtakavargaCalculator(positions, ascendant).compute_bhinnashtakavarga();
\* positions is a function from the names it has to longitudes.
ComputeBhinnashtakavarga(positions, ascendant) ==
    LET all == [ c \in (DOMAIN positions) \cup {"Asc"} |->
                   IF c = "Asc" THEN ascendant ELSE positions[c] ]
        index == AshtakaPlanets \o << "Asc" >>
        Chart(planet) ==
            LET rules == ASHTAKA_RULES[planet]
                Cell(contributor, target_sign) ==
                    IF contributor \notin DOMAIN all THEN 0
                    ELSE LET base_sign == all[contributor] \div Deg(30)
                         IN  IF \E offset \in 0 .. 11 :
                                   /\ rules[contributor][offset + 1] = 1
                                   /\ ((base_sign + offset) % 12) + 1 = target_sign
                             THEN 1 ELSE 0
                chart == [ contributor \in SeqToSet(index) |->
                             [ target_sign \in 1 .. 12 |->
                                 Cell(contributor, target_sign) ] ]
            IN  [ row \in SeqToSet(index) \cup {"Total"} |->
                    IF row = "Total"
                    THEN [ column \in 1 .. 12 |-> ColumnSum(chart, index, column) ]
                    ELSE chart[row] ]
    IN  [ planet \in SeqToSet(AshtakaPlanets) |-> Chart(planet) ]

\* compute_sarvashtakavarga(bhinnashtakavarga)
ComputeSarvashtakavarga(bhinnashtakavarga) ==
    LET sav == [ planet \in SeqToSet(AshtakaPlanets) |->
                   IF planet \in DOMAIN bhinnashtakavarga
                   THEN bhinnashtakavarga[planet]["Total"]
                   ELSE [ column \in 1 .. 12 |-> 0 ] ]
    IN  [ row \in SeqToSet(AshtakaPlanets) \cup {"Total"} |->
            IF row = "Total"
            THEN [ column \in 1 .. 12 |-> ColumnSum(sav, AshtakaPlanets, column) ]
            ELSE sav[row] ]

\* Longitudes of one body: the middle of each given sign.
MidSign(signs) == { Deg(30 * sign) + Deg(15) : sign \in signs }

\* Positions: Sun and Moon in every sign, the others in signs that include
\* the alignment giving a house all 8 bindus; Saturn may be missing.
AshtakaPositions ==
    { [ Sun |-> su, Moon |-> mo, Mars |-> ma, Mercury |-> me, Jupiter |-> ju,
        Venus |-> Deg(180) + Eighth, Saturn |-> sa ] :
        su \in MidSign(0 .. 11) \cup {0, Deg(360) - Eighth}, mo \in MidSign(0 .. 11),
        ma \in MidSign({0, 7}), me \in MidSign({10}), ju \in MidSign({8, 4}),
        sa \in MidSign({0, 9}) }
    \cup
    { [ Sun |-> su, Moon |-> mo, Mars |-> Deg(15), Mercury |-> Deg(315),
        Jupiter |-> Deg(255), Venus |-> Deg(195) ] :
        su \in MidSign(0 .. 11), mo \in MidSign(0 .. 11) }

InitAshtaka ==
    /\ op = "ashtakavarga"
    /\ pc = "call"
    /\ arg \in { [ positions |-> p, ascendant |-> a ] :
                    p \in AshtakaPositions, a \in MidSign({10, 3}) }
    /\ ret = << >>

BhinnaStep ==
    /\ op = "ashtakavarga" /\ pc = "call"
    /\ ret' = [ bhinnashtakavarga |->
                  ComputeBhinnashtakavarga(arg.positions, arg.ascendant) ]
    /\ pc' = "bhinna"
    /\ UNCHANGED <<op, arg>>

SarvaStep ==
    /\ op = "ashtakavarga" /\ pc = "bhinna"
    /\ ret' = [ bhinnashtakavarga |-> ret.bhinnashtakavarga,
                sarvashtakavarga |->
                  ComputeSarvashtakavarga(ret.bhinnashtakavarga) ]
    /\ pc' = "done"
    /\ UNCHANGED <<op, arg>>

SpecAshtaka == InitAshtaka /\ [][BhinnaStep \/ SarvaStep]_vars

\* C5: every contributor cell of every per-target chart is 0 or 1, every
\* value of each chart's Total row is in [0, 8], and every value of the
\* Sarva chart's Total row is in [0, 56].
AshtakaBindusInRange ==
    /\ (op = "ashtakavarga" /\ pc \in {"bhinna", "done"}) =>
          \A planet \in DOMAIN ret.bhinnashtakavarga :
              \A column \in 1 .. 12 :
                  LET chart == ret.bhinnashtakavarga[planet]
                  IN  /\ \A row \in DOMAIN chart \ {"Total"} :
                            chart[row][column] \in {0, 1}
                      /\ chart["Total"][column] \in 0 .. 8
    /\ (op = "ashtakavarga" /\ pc = "done") =>
          \A column \in 1 .. 12 :
              ret.sarvashtakavarga["Total"][column] \in 0 .. 56

\* C5's case: both charts computed, a house of the Sun's chart holding all 8
\* bindus and another house of it holding fewer.
AshtakaChartsComputed ==
    /\ op = "ashtakavarga" /\ pc = "done"
    /\ \E column \in 1 .. 12 : ret.bhinnashtakavarga.Sun["Total"][column] = 8
    /\ \E column \in 1 .. 12 : ret.bhinnashtakavarga.Sun["Total"][column] < 3
    /\ \E column \in 1 .. 12 : ret.sarvashtakavarga["Total"][column] > 40

-----------------------------------------------------------------------------
(* strength.py: Shadbala *)

\* A strength is a whole number of units, PointUnits to the point: tenths of
\* a point, quarters of a strength and a third of an eighth of a degree are
\* all whole.
PointUnits == 10 * 48

Points(p) == p * PointUnits

Tenths(t) == t * (PointUnits \div 10)

\* The sum of the values of a function with a finite domain.
RECURSIVE SumOf(_)
SumOf(f) ==
    IF DOMAIN f = {} THEN 0
    ELSE LET x == CHOOSE y \in DOMAIN f : TRUE
         IN  f[x] + SumOf([ y \in DOMAIN f \ {x} |-> f[y] ])

PLANET_GENDERS ==
    [ Sun |-> "male", Moon |-> "female", Mars |-> "male", Mercury |-> "neutral",
      Jupiter |-> "male", Venus |-> "female", Saturn |-> "neutral",
      Rahu |-> "neutral", Ketu |-> "neutral" ]

\* in whole degrees
EXALTATION_POINTS ==
    [ Sun |-> 10 + 120, Moon |-> 3 + 30, Mars |-> 28 + 270, Mercury |-> 15 + 150,
      Jupiter |-> 5 + 90, Venus |-> 27 + 330, Saturn |-> 20 + 180 ]

DEBILITATION_POINTS ==
    [ planet \in DOMAIN EXALTATION_POINTS |->
        (EXALTATION_POINTS[planet] + 180) % 360 ]

FRIENDSHIP ==
    [ Sun |-> [ friends |-> {"Moon", "Mars", "Jupiter"}, enemies |-> {"Venus", "Saturn"} ],
      Moon |-> [ friends |-> {"Sun", "Mercury"}, enemies |-> {"None"} ],
      Mars |-> [ friends |-> {"Sun", "Moon", "Jupiter"}, enemies |-> {"Mercury"} ],
      Mercury |-> [ friends |-> {"Sun", "Venus"}, enemies |-> {"Moon"} ],
      Jupiter |-> [ friends |-> {"Sun", "Moon", "Mars"}, enemies |-> {"Venus", "Mercury"} ],
      Venus |-> [ friends |-> {"Mercury", "Saturn"}, enemies |-> {"Sun", "Moon"} ],
      Saturn |-> [ friends |-> {"Mercury", "Venus"}, enemies |-> {"Sun", "Moon"} ] ]

\* in tenths of a point
NAISARGIKA_BALA ==
    [ Sun |-> 600, Moon |-> 514, Venus |-> 429, Jupiter |-> 343, Mercury |-> 257,
      Mars |-> 171, Saturn |-> 86, Rahu |-> 86, Ketu |-> 86 ]

DIG_BALA_OPTIMA ==
    [ Sun |-> 10, Mars |-> 10, Jupiter |-> 1, Mercury |-> 1, Moon |-> 4,
      Venus |-> 4, Saturn |-> 7, Rahu |-> 7, Ketu |-> 7 ]

\* _sign_lord
SignLord(sign_index) ==
    << "Mars", "Venus", "Mercury", "Moon", "Sun", "Mercury", "Venus", "Mars",
       "Jupiter", "Saturn", "Saturn", "Jupiter" >>[(sign_index % 12) + 1]

\* _uchcha_bala
UchchaBala(planet, position) ==
    IF planet \notin DOMAIN EXALTATION_POINTS THEN Points(15)
    ELSE LET debil == Deg(DEBILITATION_POINTS[planet])
             around == (position.longitude - debil + FullCircle) % FullCircle
             distance == IF around > Deg(180) THEN FullCircle - around ELSE around
         IN  Min(Points(60), RoundHalfEven(distance * PointUnits, 3 * UnitsPerDegree))

\* _relationship
Relationship(planet, sign) ==
    LET ruler == SignLord(SignIndexOf(sign))
        known == planet \in DOMAIN FRIENDSHIP
    IN  IF ruler = planet THEN "own"
        ELSE IF known /\ ruler \in FRIENDSHIP[planet].friends THEN "friend"
        ELSE IF known /\ ruler \in FRIENDSHIP[planet].enemies THEN "enemy"
        ELSE "neutral"

\* _saptavargaja_bala; vargas maps a division to the signs of the planets
SaptavargajaBala(planet, vargas) ==
    LET divisions == {"D1", "D2", "D3", "D7", "D9", "D12", "D30"}
        weights == [ own |-> 30, friend |-> 20, neutral |-> 15, enemy |-> 10 ]
        given == { division \in divisions \cap DOMAIN vargas :
                     planet \in DOMAIN vargas[division] }
    IN  SumOf([ division \in given |->
                  Points(weights[Relationship(planet, vargas[division][planet])]) ])

\* _oja_yugma_bala
OjaYugmaBala(planet, position, vargas) ==
    LET sign_idx == position.longitude \div Deg(30)
        gender == PLANET_GENDERS[planet]
        has_navamsa == "D9" \in DOMAIN vargas /\ planet \in DOMAIN vargas["D9"]
        nav_idx == IF has_navamsa THEN SignIndexOf(vargas["D9"][planet]) ELSE 0
    IN  (IF gender = "male" /\ sign_idx % 2 = 0 THEN Points(15) ELSE 0)
        + (IF gender = "female" /\ sign_idx % 2 = 1 THEN Points(15) ELSE 0)
        + (IF has_navamsa /\ gender = "male" /\ nav_idx % 2 = 0 THEN Points(15) ELSE 0)
        + (IF has_navamsa /\ gender = "female" /\ nav_idx % 2 = 1 THEN Points(15) ELSE 0)
        + (IF has_navamsa /\ gender = "neutral" /\ nav_idx % 2 = 0 THEN Points(10) ELSE 0)

\* _house_for_longitude; a "House 1" cusp of 0.0 is falsy and falls through
\* to "Asc"
HouseForLongitude(houses, longitude) ==
    LET asc == IF "House 1" \in DOMAIN houses /\ houses["House 1"] # 0
               THEN houses["House 1"]
               ELSE IF "Asc" \in DOMAIN houses THEN houses["Asc"] ELSE 0
        distance == (longitude - asc + FullCircle) % FullCircle
    IN  (distance \div Deg(30)) + 1

\* _kendradi_bala
KendradiBala(houses, position) ==
    LET house == HouseForLongitude(houses, position.longitude)
    IN  IF house \in {1, 4, 7, 10} THEN Points(60)
        ELSE IF house \in {2, 5, 8, 11} THEN Points(30)
        ELSE Points(15)

\* _drekkana_bala
DrekkanaBala(planet, position) ==
    LET gender == PLANET_GENDERS[planet]
        part == (position.longitude % Deg(30)) \div Deg(10)
    IN  IF \/ gender = "male" /\ part = 0
           \/ gender = "female" /\ part = 1
           \/ gender = "neutral" /\ part = 2
        THEN Points(15) ELSE Tenths(75)

\* _sthana_bala
SthanaBala(planet, position, houses, vargas) ==
    UchchaBala(planet, position) + SaptavargajaBala(planet, vargas)
      + OjaYugmaBala(planet, position, vargas) + KendradiBala(houses, position)
      + DrekkanaBala(planet, position)

\* _dig_bala
DigBala(planet, position, houses) ==
    IF planet \notin DOMAIN DIG_BALA_OPTIMA THEN Points(15)
    ELSE LET optimal_house == DIG_BALA_OPTIMA[planet]
             house == HouseForLongitude(houses, position.longitude)
             distance == Min((house - optimal_house) % 12,
                             (optimal_house - house) % 12)
         IN  Max(0, Points(60) - distance * Points(10))

\* _kala_bala
KalaBala(planet) ==
    IF planet \in {"Sun", "Jupiter", "Venus"} THEN Points(30)
    ELSE IF planet \in {"Moon", "Mars", "Saturn"} THEN Points(30)
    ELSE Points(20)

\* obliquity = 23.4367 degrees; a declination is a whole number of 240ths of
\* it, so that 30.0 * (obliquity + kranti) / obliquity is whole.
Obliquity == 240

\* A plausible slip: the value returned without the clamp to [0, 60].
AyanaBalaUnclamped(planet, position) ==
    LET kranti == position.declination
    IN  IF planet \in {"Sun", "Mars", "Jupiter", "Venus"}
        THEN (Points(30) * (Obliquity + kranti)) \div Obliquity
        ELSE IF planet \in {"Moon", "Saturn"}
        THEN (Points(30) * (Obliquity - kranti)) \div Obliquity
        ELSE Points(30)

\* _ayana_bala
AyanaBala(planet, position) ==
    LET kranti == position.declination
        value == IF planet \in {"Sun", "Mars", "Jupiter", "Venus"}
                 THEN (Points(30) * (Obliquity + kranti)) \div Obliquity
                 ELSE IF planet \in {"Moon", "Saturn"}
                 THEN (Points(30) * (Obliquity - kranti)) \div Obliquity
                 ELSE Points(30)
    IN  Max(0, Min(Points(60), value))

\* _cheshta_bala; a speed is in hundredths of a degree a day
CheshtaBala(position) ==
    LET speed == position.speed_longitude
    IN  IF speed < 0 THEN Points(60)
        ELSE IF speed < 50 THEN Points(30)
        ELSE IF speed < 100 THEN Points(20)
        ELSE Points(45)

\* _aspect_strength
AspectStrength(lon1, lon2) ==
    LET diff == Abs(((lon1 - lon2 + Deg(180)) % FullCircle) - Deg(180))
    IN  IF diff < Deg(5) THEN Points(20)
        ELSE IF diff < Deg(30) THEN Points(10)
        ELSE IF diff < Deg(60) THEN Points(5)
        ELSE 0

\* _drig_bala
DrigBala(planet, positions) ==
    LET benefics == {"Jupiter", "Venus", "Mercury", "Moon"}
        malefics == {"Saturn", "Mars", "Sun"}
        Aspect(other) ==
            AspectStrength(positions[planet].longitude, positions[other].longitude)
    IN  SumOf([ other \in DOMAIN positions \ {planet} |->
                  IF other \in benefics THEN Aspect(other)
                  ELSE IF other \in malefics THEN -Aspect(other)
                  ELSE 0 ])

\* StrengthCalculator(positions, houses, vargas).shadbala(): a row for each
\* scored planet
Shadbala(positions, houses, vargas) ==
    [ planet \in DOMAIN positions \cap DOMAIN PLANET_GENDERS |->
        LET position == positions[planet]
            sthana == SthanaBala(planet, position, houses, vargas)
            dig == DigBala(planet, position, houses)
            kala == KalaBala(planet)
            ayana == AyanaBala(planet, position)
            cheshta == CheshtaBala(position)
            naisargika == Tenths(NAISARGIKA_BALA[planet])
            drig == DrigBala(planet, positions)
        IN  [ Planet |-> planet, Sthana |-> sthana, Dig |-> dig, Kala |-> kala,
              Ayana |-> ayana, Cheshta |-> cheshta, Naisargika |-> naisargika,
              Drig |-> drig,
              Total |-> sthana + dig + kala + ayana + cheshta + naisargika
                          + drig ] ]

\* The bodies of a chart in the order the ephemeris lists them.
ChartBodies ==
    << "Sun", "Moon", "Mars", "Mercury", "Jupiter", "Venus", "Saturn", "Rahu",
       "Ketu", "Gulika" >>

\* Where the bodies stand, in spreads from the first: one after the other,
\* or Sun, Mars, Mercury and Saturn together and the others apart.
ChartSlots ==
    { << 0, 1, 2, 3, 4, 5, 6, 7, 8, 9 >>, << 0, 2, 0, 0, 3, 4, 0, 5, 6, 1 >> }

\* A chart: the first `count' bodies placed in their slots, `spread' apart
\* from `first' on, all with the same declination and speed.
Chart(count, slots, first, spread, declination, speed) ==
    [ planet \in { ChartBodies[i] : i \in 1 .. count } |->
        LET i == CHOOSE j \in 1 .. count : ChartBodies[j] = planet
        IN  [ longitude |-> (first + slots[i] * spread) % FullCircle,
              declination |-> declination,
              speed_longitude |-> speed ] ]

\* Charts for the strength calculations: conjunctions that make Drig most
\* negative, spreads about the aspect widths of 5, 30 and 60 degrees,
\* declinations beyond the obliquity on both sides, and speeds on both sides
\* of 0, 0.5 and 1 degree a day.
ShadbalaCharts ==
    { Chart(count, slots, first, spread, motion[1], motion[2]) :
        count \in {2, 7, 10},
        slots \in ChartSlots,
        first \in { Deg(0), Deg(10) - Eighth, Deg(40), Deg(130), Deg(213),
                    Deg(360) - Eighth },
        spread \in { 0, Deg(5) - Eighth, Deg(5), Deg(30) - Eighth, Deg(37) },
        motion \in { <<0, 1320>>, <<-300, -5>>, <<-240, 0>>, <<-121, 49>>,
                     <<17, 50>>, <<240, 99>>, <<300, 100>>, <<239, -1>>,
                     <<-241, 1>> } }

ShadbalaHouses ==
    { << >>,
      [ h \in {"House 1"} |-> Deg(100) + Eighth ],
      [ h \in {"House 1", "Asc"} |-> IF h = "Asc" THEN Deg(250) ELSE 0 ],
      [ h \in {"Asc"} |-> Deg(15) ] }

\* The varga signs handed over: none, what the predictor computes (D1 and
\* D9), or all default divisions.
ShadbalaVargas(positions) ==
    LET longitudes == [ planet \in DOMAIN positions |-> positions[planet].longitude ]
    IN  { << >>,
          VargaSummary(<< "D1", "D9" >>, longitudes),
          VargaSummary(DefaultDivisions, longitudes) }

InitShadbala ==
    /\ op = "shadbala"
    /\ pc = "call"
    /\ arg \in UNION { { [ positions |-> p, houses |-> h, vargas |-> v ] :
                            h \in ShadbalaHouses, v \in ShadbalaVargas(p) } :
                        p \in ShadbalaCharts }
    /\ ret = << >>

ComputeShadbala ==
    /\ op = "shadbala" /\ pc = "call"
    /\ ret' = Shadbala(arg.positions, arg.houses, arg.vargas)
    /\ pc' = "done"
    /\ UNCHANGED <<op, arg>>

SpecShadbala == InitShadbala /\ [][ComputeShadbala]_vars

\* C6: for every scored body the Shadbala Total equals the sum of its seven
\* components and is >= 0, even when Drig takes its most negative value, and
\* every component other than Drig is >= 0.
ShadbalaTotalNonNegative ==
    (op = "shadbala" /\ pc = "done") =>
        \A planet \in DOMAIN ret :
            LET row == ret[planet]
            IN  /\ row.Total = row.Sthana + row.Dig + row.Kala + row.Ayana
                                 + row.Cheshta + row.Naisargika + row.Drig
                /\ row.Total >= 0
                /\ row.Sthana >= 0 /\ row.Dig >= 0 /\ row.Kala >= 0
                /\ row.Ayana >= 0 /\ row.Cheshta >= 0 /\ row.Naisargika >= 0

\* C6's case: Mercury scored in conjunction with Sun, Mars and Saturn and
\* away from the benefics, its Drig at the most negative value the three
\* malefics can give, with Saturn's Ayana clamped at 0 by a declination
\* beyond the obliquity and its Dig at 0.
ShadbalaUnderFullAffliction ==
    /\ op = "shadbala" /\ pc = "done"
    /\ {"Mercury", "Saturn", "Rahu"} \subseteq DOMAIN ret
    /\ ret.Mercury.Drig = -Points(60)
    /\ ret.Saturn.Drig = Points(20) - Points(40)
    /\ ret.Saturn.Ayana = 0
    /\ ret.Saturn.Dig = 0
    /\ arg.vargas = << >>

-----------------------------------------------------------------------------
(* ephemeris.py: sunrise and sunset, the daily periods; panchang.py *)

\* Ticks in timedelta(days=1) for the panchang.  A tick stands for the
\* microsecond, in which the Moon moves through many neighbouring doubles of
\* its longitude: in one tick here it moves through many units.
TicksPerDay == 2 * 12

TicksPerHour == TicksPerDay \div 24

\* A datetime is its wall clock in ticks since a Monday 00:00, the UTC offset
\* of its tzinfo, and whether it has a tzinfo at all (a naive datetime is
\* taken in the system's zone, offset 0 here).  The instant it denotes:
Instant(when) == when.wall - when.offset

\* when.weekday(): Monday is 0
Weekday(when) == (when.wall \div TicksPerDay) % 7

\* An optional value: None is the empty sequence, a value x is << x >>.
None == << >>

\* _infer_timezone_offset
InferTimezoneOffset(when, tz_offset_hours) ==
    IF tz_offset_hours # None THEN tz_offset_hours[1]
    ELSE IF when.aware THEN when.offset
    ELSE 0

\* datetime(date.year, date.month, date.day, tzinfo=local_tz) for
\* date = when.astimezone(local_tz).date(): the instant of local midnight
LocalMidnight(when, tz_offset) ==
    (((Instant(when) + tz_offset) \div TicksPerDay) * TicksPerDay) - tz_offset

\* _approximate_rise_set: base + timedelta(hours=ut + tz_offset_hours), where
\* ut = (t_local - lng_hour) % 24 comes out of the sunrise equation, or None
\* where the Sun does not rise or set.  ut is given: any tick of the day.
ApproximateRiseSet(when, tz_offset, ut) ==
    IF ut = None THEN None
    ELSE << LocalMidnight(when, tz_offset) + ut[1] + tz_offset >>

\* sunrise_sunset (without Swiss Ephemeris, whose rise/set always raises):
\* None or << sunrise, sunset >>
SunriseSunset(when, tz_offset_hours, rise_ut, set_ut) ==
    LET tz_offset == InferTimezoneOffset(when, tz_offset_hours)
        sunrise == ApproximateRiseSet(when, tz_offset, rise_ut)
        sunset == ApproximateRiseSet(when, tz_offset, set_ut)
    IN  IF sunrise = None \/ sunset = None THEN None
        ELSE IF sunrise[1] > sunset[1]
        THEN << sunrise[1] - TicksPerDay, sunset[1] >>
        ELSE << sunrise[1], sunset[1] >>

\* A plausible slip: Gulika Kalam looked up in Rahu Kalam's table.
RahuKalamPeriodsFromOneTable(when, riseset) ==
    IF riseset = None THEN << >>
    ELSE LET weekday == Weekday(when)
             day_segment == RoundHalfEven(riseset[2] - riseset[1], 8)
             rahu_indices == << 1, 6, 4, 5, 3, 2, 7 >>
             yamaganda_indices == << 3, 2, 1, 0, 6, 5, 4 >>
             Build(name, index) ==
                 LET start == riseset[1] + index * day_segment
                 IN  [ name |-> name, start |-> start, end |-> start + day_segment ]
         IN  << Build("Rahu Kalam", rahu_indices[weekday + 1]),
                Build("Yamaganda", yamaganda_indices[weekday + 1]),
                Build("Gulika Kalam", rahu_indices[weekday + 1]) >>

\* rahu_kalam_periods, given what sunrise_sunset returned
RahuKalamPeriods(when, riseset) ==
    IF riseset = None THEN << >>
    ELSE LET weekday == Weekday(when)
             day_segment == RoundHalfEven(riseset[2] - riseset[1], 8)
             rahu_indices == << 1, 6, 4, 5, 3, 2, 7 >>
             yamaganda_indices == << 3, 2, 1, 0, 6, 5, 4 >>
             gulika_indices == << 5, 4, 3, 2, 1, 0, 6 >>
             Build(name, index) ==
                 LET start == riseset[1] + index * day_segment
                 IN  [ name |-> name, start |-> start, end |-> start + day_segment ]
         IN  << Build("Rahu Kalam", rahu_indices[weekday + 1]),
                Build("Yamaganda", yamaganda_indices[weekday + 1]),
                Build("Gulika Kalam", gulika_indices[weekday + 1]) >>

\* body_rise_set(when, ..., "Moon", tz_offset_hours) without Swiss Ephemeris
BodyRiseSet(when, tz_offset_hours, riseset, sun, moon) ==
    IF riseset = None
    THEN LET tz_offset == InferTimezoneOffset(when, tz_offset_hours)
             fallback_rise == LocalMidnight(when, tz_offset) + 6 * TicksPerHour
         IN  << fallback_rise, fallback_rise + 12 * TicksPerHour >>
    ELSE LET phase_diff == (moon.longitude - sun.longitude) % FullCircle
             rise == riseset[1]
                       + RoundHalfEven(phase_diff * TicksPerDay, FullCircle)
         IN  << rise, rise + 12 * TicksPerHour >>

\* _time_delta_from_degrees: timedelta(days=delta / speed), rounded to the
\* tick; speed in hundredths of a degree a day
TimeDeltaFromDegrees(delta, speed) ==
    RoundHalfEven(delta * 100 * TicksPerDay, UnitsPerDegree * speed)

\* _relative_speed
RelativeSpeed(moon_speed, sun_speed) == Max(Abs(moon_speed - sun_speed), 10)

\* _tithi_interval (span 12 degrees) and _karana_interval (span 6 degrees):
\* << index, start, end >>
ElongationInterval(when, sun, moon, span) ==
    LET diff == (moon.longitude - sun.longitude) % FullCircle
        index == diff \div span
        remainder == diff - index * span
        rel_speed == RelativeSpeed(moon.speed_longitude, sun.speed_longitude)
    IN  << index,
           Instant(when) - TimeDeltaFromDegrees(remainder, rel_speed),
           Instant(when) + TimeDeltaFromDegrees(span - remainder, rel_speed) >>

\* _nakshatra_interval: << index, end >>.  The index comes from a true
\* division, which rounds a quotient just short of a whole number to it; the
\* remainder comes from %, which does not.
NakshatraInterval(when, moon) ==
    LET diff == ModFloat(moon.longitude, NAKSHATRA_DEGREES, NakshatraRounding)
        speed == Max(Abs(moon.speed_longitude), 10)
        index == moon.longitude \div NAKSHATRA_DEGREES
    IN  << index,
           Instant(when) + TimeDeltaFromDegrees(NAKSHATRA_DEGREES - diff, speed) >>

\* _yoga_interval: << index, end >>
YogaInterval(when, sun, moon) ==
    LET sum_long == (sun.longitude + moon.longitude) % FullCircle
        index == sum_long \div NAKSHATRA_DEGREES
        remainder == sum_long - index * NAKSHATRA_DEGREES
        speed == Max(Abs(sun.speed_longitude) + Abs(moon.speed_longitude), 10)
    IN  << index,
           Instant(when) + TimeDeltaFromDegrees(NAKSHATRA_DEGREES - remainder, speed) >>

\* PanchangCalculator.compute, given the positions of Sun and Moon and the
\* ut of sunrise and sunset
PanchangCompute(when, tz_offset_hours, sun, moon, rise_ut, set_ut) ==
    LET tithi == ElongationInterval(when, sun, moon, Deg(12))
        nakshatra == NakshatraInterval(when, moon)
        yoga == YogaInterval(when, sun, moon)
        karana == ElongationInterval(when, sun, moon, Deg(6))
        riseset == SunriseSunset(when, tz_offset_hours, rise_ut, set_ut)
        \* when.replace(hour=..., minute=0, second=0, microsecond=0)
        midnight == ((when.wall \div TicksPerDay) * TicksPerDay) - when.offset
        moonrise_moonset == BodyRiseSet(when, tz_offset_hours, riseset, sun, moon)
        periods == RahuKalamPeriods(when, riseset)
        Named(name) ==
            IF \E i \in DOMAIN periods : periods[i].name = name
            THEN << periods[CHOOSE i \in DOMAIN periods : periods[i].name = name] >>
            ELSE None
    IN  [ tithi |-> tithi[1] + 1, nakshatra |-> nakshatra[1] + 1,
          yoga |-> yoga[1] + 1, karana |-> karana[1] + 1,
          weekday |-> Weekday(when),
          sunrise |-> IF riseset = None THEN midnight + 6 * TicksPerHour
                      ELSE riseset[1],
          sunset |-> IF riseset = None THEN midnight + 18 * TicksPerHour
                     ELSE riseset[2],
          moonrise |-> moonrise_moonset[1], moonset |-> moonrise_moonset[2],
          tithi_start |-> tithi[2], tithi_end |-> tithi[3],
          nakshatra_end |-> nakshatra[2], yoga_end |-> yoga[2],
          karana_end |-> karana[3],
          rahu_kalam |-> Named("Rahu Kalam"), yamaganda |-> Named("Yamaganda"),
          gulika_kalam |-> Named("Gulika Kalam") ]

\* The ut the sunrise equation may give: None, or a time of the day (here
\* the hours about 06:00 and 18:00 and the ends of the day).
RiseSetUts ==
    { None } \cup { << hour * TicksPerHour >> : hour \in {0, 5, 6, 7, 17, 18, 23} }

\* Longitudes of the Moon: whole eighths, the width boundaries among them,
\* and the doubles next to a boundary (one unit off).
PanchangMoonLongitudes ==
    { 0, Eighth, Deg(6) - 1, Deg(6), Deg(12) - 1, Deg(12), Deg(40) - 1, Deg(40),
      Deg(40) + 1, Deg(200) + 3 * Eighth, Deg(360) - Eighth, Deg(360) - 1 }

\* << Sun's speed, Moon's speed >>: usual, both zero, equal, retrograde Sun
PanchangSpeeds ==
    { << 100, 1320 >>, << 0, 0 >>, << 100, 100 >>, << -3, 1180 >>, << 99, 1500 >> }

PanchangInstants ==
    { [ wall |-> w, offset |-> z[1], aware |-> z[2] ] :
        w \in { 2, 3 * TicksPerDay + 12 * TicksPerHour,
                6 * TicksPerDay + 23 * TicksPerHour },
        z \in { << 0, FALSE >>, << 5 * TicksPerHour, TRUE >> } }

InitPanchang ==
    /\ op = "panchang"
    /\ pc = "call"
    /\ arg \in { [ when |-> w, tz_offset_hours |-> tz,
                    sun |-> [ longitude |-> sl, speed_longitude |-> v[1] ],
                    moon |-> [ longitude |-> ml, speed_longitude |-> v[2] ] ] :
                    w \in PanchangInstants,
                    tz \in { None, << -8 * TicksPerHour >> },
                    sl \in { 0, Deg(20), Deg(355) + 3 * Eighth },
                    ml \in PanchangMoonLongitudes,
                    v \in PanchangSpeeds }
    /\ ret = << >>

ComputePanchang ==
    /\ op = "panchang" /\ pc = "call"
    /\ \E rise_ut \in RiseSetUts, set_ut \in RiseSetUts :
          ret' = PanchangCompute(arg.when, arg.tz_offset_hours, arg.sun, arg.moon,
                                 rise_ut, set_ut)
    /\ pc' = "done"
    /\ UNCHANGED <<op, arg>>

SpecPanchang == InitPanchang /\ [][ComputePanchang]_vars

\* C7: tithi_start <= t, and tithi_end, nakshatra_end, yoga_end and
\* karana_end are each strictly later than the query instant t, so that
\* tithi_end > tithi_start, whatever the longitudes and speeds (the
\* 0.1 degree a day floor included).
PanchangEndsAfterQuery ==
    (op = "panchang" /\ pc = "done") =>
        LET t == Instant(arg.when)
        IN  /\ ret.tithi_start <= t
            /\ ret.tithi_end > t
            /\ ret.nakshatra_end > t
            /\ ret.yoga_end > t
            /\ ret.karana_end > t
            /\ ret.tithi_end > ret.tithi_start

\* C8: sunset is strictly after sunrise in every PanchangDetails, by less
\* than 24 hours: sunrise_sunset's pair with a later sunrise moved back a
\* day, or the 06:00 / 18:00 pair.
SunsetAfterSunrise ==
    (op = "panchang" /\ pc = "done") =>
        /\ ret.sunset > ret.sunrise
        /\ ret.sunset - ret.sunrise < TicksPerDay

-----------------------------------------------------------------------------
(* strength.py: Bhavabala and Ishta/Kashta *)

MOOLATRIKONA_SIGN ==
    [ Sun |-> "Leo", Moon |-> "Taurus", Mars |-> "Aries", Mercury |-> "Virgo",
      Jupiter |-> "Sagittarius", Venus |-> "Libra", Saturn |-> "Aquarius",
      Rahu |-> "Gemini", Ketu |-> "Sagittarius" ]

\* in whole degrees of the sign
MOOLATRIKONA_RANGE ==
    [ Sun |-> << 0, 20 >>, Moon |-> << 3, 30 >>, Mars |-> << 0, 12 >>,
      Mercury |-> << 15, 20 >>, Jupiter |-> << 0, 10 >>, Venus |-> << 0, 15 >>,
      Saturn |-> << 0, 20 >>, Rahu |-> << 0, 30 >>, Ketu |-> << 0, 30 >> ]

\* _moolatrikona_bala
MoolatrikonaBala(planet, position) ==
    IF planet \notin DOMAIN MOOLATRIKONA_SIGN THEN 0
    ELSE IF SignName(position.longitude \div Deg(30)) # MOOLATRIKONA_SIGN[planet]
    THEN 0
    ELSE LET lon_in_sign == position.longitude % Deg(30)
             range == MOOLATRIKONA_RANGE[planet]
         IN  IF Deg(range[1]) <= lon_in_sign /\ lon_in_sign <= Deg(range[2])
             THEN Points(45) ELSE 0

\* math.sqrt to the nearest whole unit: the r in lo .. hi nearest to sqrt(n)
RECURSIVE Sqrt(_, _, _)
Sqrt(n, lo, hi) ==
    IF lo >= hi THEN (IF lo * lo + lo < n THEN lo + 1 ELSE lo)
    ELSE LET mid == (lo + hi + 1) \div 2
         IN  IF mid * mid <= n THEN Sqrt(n, mid, hi) ELSE Sqrt(n, lo, mid - 1)

\* compute_ishta_kashta: the Ratio column, in thousandths, for each scored
\* planet.  Ishta and Kashta are in PointUnits; 0.01 is the nearest unit.
IshtaKashta(positions, houses) ==
    [ planet \in DOMAIN positions \cap DOMAIN PLANET_GENDERS |->
        LET position == positions[planet]
            least == RoundHalfEven(PointUnits, 100)
            uchcha_bala == UchchaBala(planet, position)
            moolatrikona == MoolatrikonaBala(planet, position)
            current_sign == SignName(position.longitude \div Deg(30))
            mt_bala == IF moolatrikona = 0 /\ Relationship(planet, current_sign) = "own"
                       THEN Points(30) ELSE moolatrikona
            cheshta_bala == CheshtaBala(position)
            dig_bala == DigBala(planet, position, houses)
            paksha_bala == Points(30)
            ishta == Sqrt(Max(least, uchcha_bala) * Max(least, cheshta_bala),
                          0, Points(60))
                       + (mt_bala \div 2) + (dig_bala \div 4) + (paksha_bala \div 2)
            kashta == Sqrt(Max(least, Points(60) - uchcha_bala)
                             * Max(least, Points(60) - cheshta_bala), 0, Points(60))
                        + Max(0, Points(30) - (mt_bala \div 2))
        IN  IF ishta + kashta > 0 THEN RoundHalfEven(1000 * ishta, ishta + kashta)
            ELSE 500 ]

\* f"House {house}"
HouseName(house) ==
    << "House 1", "House 2", "House 3", "House 4", "House 5", "House 6",
       "House 7", "House 8", "House 9", "House 10", "House 11", "House 12" >>[house]

\* A plausible slip: the lord of the sign with the house's own number.
HouseLordBySignNumber(houses, house) ==
    LET name == HouseName(house)
        cusp == IF name \in DOMAIN houses THEN houses[name] ELSE 0
    IN  [ lord |-> SignLord(house - 1), cusp |-> cusp ]

\* _house_lord, with the cusp it reads
HouseLord(houses, house) ==
    LET name == HouseName(house)
        cusp == IF name \in DOMAIN houses THEN houses[name] ELSE 0
    IN  [ lord |-> SignLord(cusp \div Deg(30)), cusp |-> cusp ]

\* bhavabala: the Strength of each house 1 .. 12, in quarters of a PointUnit
\* (lord_strength / 4 is then the lord's Total as it stands)
Bhavabala(positions, houses, vargas) ==
    LET shadbala == Shadbala(positions, houses, vargas)
        benefics == {"Jupiter", "Venus", "Mercury", "Moon"}
        malefics == {"Saturn", "Mars", "Sun", "Rahu", "Ketu"}
        HouseStrength(house) ==
            LET lord == HouseLord(houses, house).lord
                lord_strength == IF lord \in DOMAIN shadbala
                                 THEN shadbala[lord].Total ELSE Points(120)
                occupants == { planet \in DOMAIN positions :
                                 HouseForLongitude(houses, positions[planet].longitude)
                                   = house }
                occupancy_score ==
                    (Cardinality(occupants \cap benefics)
                       - Cardinality(occupants \cap malefics)) * 10
                cusp_longitude == HouseLord(houses, house).cusp
                aspecting ==
                    { planet \in DOMAIN positions :
                        Abs(((positions[planet].longitude - cusp_longitude
                                + Deg(180)) % FullCircle) - Deg(180)) < Deg(120) }
                aspect_score ==
                    (Cardinality(aspecting \cap benefics)
                       - Cardinality(aspecting \cap malefics)) * 5
                sign_quality == IF house \in {1, 4, 7, 10} THEN 10 ELSE 5
            IN  lord_strength
                  + 4 * Points(occupancy_score + aspect_score + sign_quality)
    IN  [ house \in 1 .. 12 |-> HouseStrength(house) ]

-----------------------------------------------------------------------------
(* ai.py: the activity predictor *)

\* weights in tenths
ACTIVITY_WEIGHTS ==
    [ Business |->
        [ planet_weights |-> [ Mercury |-> 12, Jupiter |-> 10, Saturn |-> 8 ],
          house_weights |-> (10 :> 10) @@ (11 :> 10) @@ (2 :> 8),
          ishta_kashta_impact |-> 15, dasha_impact |-> -20 ],
      Marriage |->
        [ planet_weights |-> [ Venus |-> 15, Jupiter |-> 12, Moon |-> 10 ],
          house_weights |-> (7 :> 20) @@ (2 :> 5) @@ (1 :> 5),
          ishta_kashta_impact |-> 10, dasha_impact |-> -15 ],
      Travel |->
        [ planet_weights |-> [ Mercury |-> 10, Moon |-> 10, Mars |-> 8 ],
          house_weights |-> (3 :> 5) @@ (9 :> 10) @@ (12 :> 5),
          ishta_kashta_impact |-> 8, dasha_impact |-> -10 ],
      Exams |->
        [ planet_weights |-> [ Mercury |-> 14, Jupiter |-> 11 ],
          house_weights |-> (5 :> 10) @@ (9 :> 10),
          ishta_kashta_impact |-> 12, dasha_impact |-> -10 ] ]

\* self.activity_weights.get(activity, {}) with the defaults the lookups of
\* predict fall back to
Weights(activity) ==
    IF activity \in DOMAIN ACTIVITY_WEIGHTS THEN ACTIVITY_WEIGHTS[activity]
    ELSE [ planet_weights |-> [ planet \in {"Jupiter"} |-> 10 ],
           house_weights |-> << >>,
           ishta_kashta_impact |-> 10, dasha_impact |-> 0 ]

\* A score is in ScoreUnits to the point: Total * weight is then whole, and
\* so is Strength * weight with Strength in quarters of a PointUnit.  The
\* Ishta term and the product with the multiplier fall on the nearest unit,
\* as the products of doubles fall on the nearest double.
ScoreUnits == PointUnits * 4 * 10

\* timedelta(minutes=interval_minutes): the scans step in whole ticks
Minutes(interval_minutes) == (interval_minutes * TicksPerHour) \div 60

\* _temporal_penalties, given the periods: multiplier in hundredths
TemporalPenalties(when, periods) ==
    LET Holds(i) == /\ periods[i].start <= Instant(when)
                    /\ Instant(when) < periods[i].end
        Factor(name) == CASE name = "Rahu Kalam" -> 60
                          [] name = "Yamaganda" -> 75
                          [] name = "Gulika Kalam" -> 80
                          [] OTHER -> 100
        multiplier[i \in 0 .. Len(periods)] ==
            IF i = 0 THEN 100
            ELSE IF Holds(i)
            THEN (multiplier[i - 1] * Factor(periods[i].name)) \div 100
            ELSE multiplier[i - 1]
    IN  [ multiplier |-> multiplier[Len(periods)],
          notes |-> [ i \in 1 .. Cardinality({ j \in DOMAIN periods : Holds(j) }) |->
                        periods[CHOOSE j \in DOMAIN periods :
                                  /\ Holds(j)
                                  /\ Cardinality({ k \in 1 .. j : Holds(k) }) = i].name ] ]

\* _find_active_antardasha: the lord, or None
FindActiveAntardasha(dashas, when) ==
    LET Active(level) == { i \in DOMAIN dashas :
                             /\ dashas[i].level = level
                             /\ dashas[i].start <= Instant(when)
                             /\ Instant(when) < dashas[i].end }
        First(level) == CHOOSE i \in Active(level) : \A j \in Active(level) : i <= j
    IN  IF Active(2) # {} THEN << dashas[First(2)].lord >>
        ELSE IF Active(1) # {} THEN << dashas[First(1)].lord >>
        ELSE None

\* The ephemeris as the predictor sees it: planetary_positions at an instant
\* is one of the charts (they follow each other hour by hour), house_cusps
\* are equal houses from an ascendant, and the sunrise equation gives the
\* same ut on the dates of the scan.
PlanetaryPositions(ephemeris, when) ==
    ephemeris.charts[((Instant(when) \div TicksPerHour) % Len(ephemeris.charts)) + 1]

\* The terms of the score of the interval starting at `current': predict up
\* to the dasha penalty.  shadbala_score is in PointUnits times tenths,
\* bhava_score in ScoreUnits, ishta_score in thousandths times tenths,
\* natal_bonus and dasha_penalty in tenths of a point.  The periods of the
\* dasha are on the tick of the scan.
ScoreTerms(request, current) ==
    LET weights == Weights(request.activity)
        planet_weights == weights.planet_weights
        house_weights == weights.house_weights
        positions == PlanetaryPositions(request.ephemeris, current)
        houses == request.ephemeris.houses
        varga_summary ==
            VargaSummary(<< "D1", "D9" >>,
                         [ planet \in DOMAIN positions \ {"Gulika", "Mandi"} |->
                             positions[planet].longitude ])
        shadbala_df == Shadbala(positions, houses, varga_summary)
        bhava_df == Bhavabala(positions, houses, varga_summary)
        ishta_df == IshtaKashta(positions, houses)
        table == request.birth_ashtakavarga[1]
        Bonus(planet) ==
            IF planet \notin DOMAIN positions \/ planet \notin DOMAIN table THEN 0
            ELSE LET sign == (positions[planet].longitude \div Deg(30)) + 1
                     bindus == table[planet][sign]
                 IN  IF bindus > 4 THEN (bindus - 4) * planet_weights[planet] ELSE 0
        antardasha_lord ==
            FindActiveAntardasha(
                ComputeVimshottari(request.birth_moon_lon[1],
                                   Instant(request.birth_dt[1]), 3),
                current)
    IN  [ shadbala_score |->
            SumOf([ p \in DOMAIN planet_weights |->
                      (IF p \in DOMAIN shadbala_df THEN shadbala_df[p].Total ELSE 0)
                        * planet_weights[p] ]),
          bhava_score |->
            SumOf([ h \in DOMAIN house_weights |->
                      (IF h \in DOMAIN bhava_df THEN bhava_df[h] ELSE 0)
                        * house_weights[h] ]),
          ishta_score |->
            SumOf([ p \in DOMAIN planet_weights |->
                      (IF p \in DOMAIN ishta_df THEN ishta_df[p] ELSE 500)
                        * planet_weights[p] ]),
          natal_bonus |->
            IF request.birth_ashtakavarga = None THEN 0
            ELSE SumOf([ p \in DOMAIN planet_weights |-> Bonus(p) ]),
          dasha_penalty |->
            IF request.birth_dt # None /\ request.birth_moon_lon # None
                 /\ antardasha_lord # None
                 /\ antardasha_lord[1] \in {"Saturn", "Mars", "Rahu", "Ketu"}
            THEN weights.dasha_impact ELSE 0 ]

\* A plausible slip: the multiplier applied to the strengths only, the natal
\* bonus and the dasha penalty added after it.
ScoreBonusUnscaled(weights, terms, multiplier) ==
    MulDivRound(4 * terms.shadbala_score + terms.bhava_score
                  + MulDivRound(terms.ishta_score * weights.ishta_kashta_impact,
                                ScoreUnits, 10000),
                multiplier, 100)
      + (terms.natal_bonus + terms.dasha_penalty) * (ScoreUnits \div 10)

\* predict, the score from its terms and penalties["multiplier"]
Score(weights, terms, multiplier) ==
    LET score == 4 * terms.shadbala_score + terms.bhava_score
                   + MulDivRound(terms.ishta_score * weights.ishta_kashta_impact,
                                 ScoreUnits, 10000)
                   + (terms.natal_bonus + terms.dasha_penalty) * (ScoreUnits \div 10)
    IN  MulDivRound(score, multiplier, 100)

\* The periods _temporal_penalties asks the ephemeris for
PenaltyPeriods(request, current) ==
    RahuKalamPeriods(current,
                     SunriseSunset(current, None, request.ephemeris.rise_ut,
                                   request.ephemeris.set_ut))

\* The comparisons of an aware datetime with a naive one, which raise
\* TypeError: a period of the day (aware) with a naive `current', and a
\* period of the dasha (as birth_dt is) with a `current' of the other kind.
PredictRaises(request, current) ==
    \/ PenaltyPeriods(request, current) # << >> /\ ~current.aware
    \/ /\ request.birth_dt # None /\ request.birth_moon_lon # None
       /\ request.birth_dt[1].aware # current.aware

\* One pass of the loop of predict: the PredictionResult appended, with the
\* notes of the penalties for its explanation
PredictionResult(request, current) ==
    LET penalties == TemporalPenalties(current, PenaltyPeriods(request, current))
    IN  [ Start |-> current,
          End |-> [ current EXCEPT !.wall = @ + Minutes(request.interval_minutes) ],
          Score |-> Score(Weights(request.activity), ScoreTerms(request, current),
                          penalties.multiplier),
          Explanation |-> penalties.notes ]

\* df.sort_values("Score", ascending=False): pandas sorts with quicksort,
\* which is not stable, so rows of equal Score come in any order.
SortValues(rows) ==
    { [ i \in DOMAIN rows |-> rows[order[i]] ] :
        order \in { f \in [ DOMAIN rows -> DOMAIN rows ] :
                      /\ \A i, j \in DOMAIN rows : i # j => f[i] # f[j]
                      /\ \A i, j \in DOMAIN rows :
                           i < j => rows[f[i]].Score >= rows[f[j]].Score } }

\* The most passes of the loop followed in one scan.
MaxIntervals == 4

\* datetime.min, 0001-01-01 00:00, a Monday: here the Monday 300 weeks before
\* the one the wall clocks count from, earlier than every birth.
MinDatetime == - (300 * 7 * TicksPerDay)

\* Ephemerides: a sky that stands still or alternates between two charts;
\* the Sun never rising, or up for 16 hours from 06:00 or from 02:00 (an
\* eighth of the daylight is then a whole number of ticks).
PredictorEphemerides ==
    LET still == Chart(10, << 0, 1, 2, 3, 4, 5, 6, 7, 8, 9 >>, Deg(40), Deg(37),
                       17, 50)
        other == Chart(10, << 0, 2, 0, 0, 3, 4, 0, 5, 6, 1 >>, Deg(130),
                       Deg(30) - Eighth, -121, 49)
    IN  { [ charts |-> charts,
            houses |-> [ name \in { HouseName(i) : i \in 1 .. 12 } |->
                           LET i == CHOOSE j \in 1 .. 12 : HouseName(j) = name
                           IN  (Deg(100) + Eighth + Deg(30 * (i - 1))) % FullCircle ],
            rise_ut |-> hours[1], set_ut |-> hours[2] ] :
          charts \in { << still >>, << still, other >> },
          hours \in { << None, << 18 * TicksPerHour >> >>,
                      << << 6 * TicksPerHour >>, << 22 * TicksPerHour >> >>,
                      << << 2 * TicksPerHour >>, << 18 * TicksPerHour >> >> } }

\* Birth contexts: none; a birth under Ketu whose first antardasha (Ketu's,
\* 7/120 of 7 years) ends at 09:00 of the first day, with the
\* Sarvashtakavarga of a chart; a birth under Venus without a table.
BirthContexts ==
    LET table == ComputeSarvashtakavarga(
                     ComputeBhinnashtakavarga(
                         [ Sun |-> Deg(15), Moon |-> Deg(105), Mars |-> Deg(15),
                           Mercury |-> Deg(315), Jupiter |-> Deg(255),
                           Venus |-> Deg(195), Saturn |-> Deg(285) ], Deg(105)))
    IN  { [ birth_dt |-> None, birth_moon_lon |-> None,
            birth_ashtakavarga |-> None ],
          [ birth_dt |-> << [ wall |-> 0, offset |-> 0, aware |-> TRUE ] >>,
            birth_moon_lon |-> << Deg(20) >>, birth_ashtakavarga |-> None ] }
        \cup
        { [ birth_dt |->
              << [ wall |-> 9 * TicksPerHour - (7 * 7 * TicksPerYear) \div 120,
                   offset |-> 0, aware |-> aware ] >>,
            birth_moon_lon |-> << 0 >>, birth_ashtakavarga |-> << table >> ] :
          aware \in BOOLEAN }

\* Scans: every activity (and one without weights) hour by hour over four
\* hours, and the Business scan from naive and aware starts, over an empty,
\* a three-hour and a four-hour range, in steps of 0, 60 and 120 minutes,
\* and over the three-hour range in steps of one hour and of 30000 hours
\* backwards.
InitPredictor ==
    /\ op = "predict"
    /\ pc = "scan"
    /\ arg \in { [ activity |-> scan[1], start |-> start,
                    end |-> [ start EXCEPT !.wall = @ + scan[2] * TicksPerHour ],
                    interval_minutes |-> scan[3],
                    ephemeris |-> ephemeris,
                    birth_dt |-> birth.birth_dt,
                    birth_moon_lon |-> birth.birth_moon_lon,
                    birth_ashtakavarga |-> birth.birth_ashtakavarga ] :
                    scan \in ((DOMAIN ACTIVITY_WEIGHTS \cup {"Gardening"})
                                \X {4} \X {60})
                             \cup ({"Business"} \X {0, 3, 4} \X {0, 60, 120})
                             \cup ({"Business"} \X {3} \X {-60, -1800000}),
                    start \in { [ wall |-> wall, offset |-> 0, aware |-> aware ] :
                                  wall \in { 7 * TicksPerHour,
                                             TicksPerDay + 13 * TicksPerHour },
                                  aware \in BOOLEAN },
                    ephemeris \in PredictorEphemerides,
                    birth \in BirthContexts }
    /\ ret = [ current |-> arg.start, results |-> << >>, df |-> None ]

\* while current < end: ... results.append(...); current += interval
ScanInterval ==
    /\ op = "predict" /\ pc = "scan"
    /\ Instant(ret.current) < Instant(arg.end)
    /\ Len(ret.results) < MaxIntervals
    /\ ~PredictRaises(arg, ret.current)
    /\ ret.current.wall + Minutes(arg.interval_minutes) >= MinDatetime
    /\ ret' = [ ret EXCEPT
                  !.results = Append(@, PredictionResult(arg, ret.current)),
                  !.current = [ @ EXCEPT !.wall = @ + Minutes(arg.interval_minutes) ] ]
    /\ UNCHANGED <<op, pc, arg>>

\* the TypeError of a comparison in the loop leaves predict
ScanRaises ==
    /\ op = "predict" /\ pc = "scan"
    /\ Instant(ret.current) < Instant(arg.end)
    /\ PredictRaises(arg, ret.current)
    /\ pc' = "raised"
    /\ UNCHANGED <<op, arg, ret>>

\* current + timedelta(minutes=interval_minutes) before datetime.min raises
\* OverflowError where the row is built; nothing is appended
ScanOverflows ==
    /\ op = "predict" /\ pc = "scan"
    /\ Instant(ret.current) < Instant(arg.end)
    /\ ~PredictRaises(arg, ret.current)
    /\ ret.current.wall + Minutes(arg.interval_minutes) < MinDatetime
    /\ pc' = "raised"
    /\ UNCHANGED <<op, arg, ret>>

\* after the loop: the frame of the results, sorted by Score
SortResults ==
    /\ op = "predict" /\ pc = "scan"
    /\ ~(Instant(ret.current) < Instant(arg.end))
    /\ \E rows \in SortValues(ret.results) :
          ret' = [ ret EXCEPT !.df = << rows >> ]
    /\ pc' = "done"
    /\ UNCHANGED <<op, arg>>

SpecPredictor ==
    InitPredictor
      /\ [][ScanInterval \/ ScanRaises \/ ScanOverflows \/ SortResults]_vars

\* The multiplier of C9 in millionths: the product of 0.6, 0.75 and 0.8 over
\* those of the three windows of the day that contain the instant.
WindowProduct(request, when) ==
    LET windows == PenaltyPeriods(request, when)
        Within(name) == \E i \in DOMAIN windows :
                           /\ windows[i].name = name
                           /\ windows[i].start <= Instant(when)
                           /\ Instant(when) < windows[i].end
    IN  (IF Within("Rahu Kalam") THEN 60 ELSE 100)
          * (IF Within("Yamaganda") THEN 75 ELSE 100)
          * (IF Within("Gulika Kalam") THEN 80 ELSE 100)

\* The sum of C9 before the multiplier, in ScoreUnits.
AdditiveScore(request, when) ==
    LET terms == ScoreTerms(request, when)
        impact == Weights(request.activity).ishta_kashta_impact
    IN  4 * terms.shadbala_score + terms.bhava_score
          + MulDivRound(terms.ishta_score * impact, ScoreUnits, 10000)
          + terms.natal_bonus * (ScoreUnits \div 10)
          + terms.dasha_penalty * (ScoreUnits \div 10)

\* C9: the score of every scanned interval is (weighted Shadbala sum +
\* weighted Bhavabala sum + 10 x ishta impact x weighted Ishta-ratio sum +
\* natal bonus + dasha penalty) times m, m being the product of 0.6, 0.75
\* and 0.8 over the windows [start, end) that contain the interval's start;
\* so of two intervals with the same sum, one in Rahu Kalam only and one in
\* no window, the scores are in ratio 0.6 (to the unit the product falls on).
\* Stated of the interval scanned last and of its pairs with the earlier
\* ones: every interval is the last one in the state its pass leads to.
PredictScoreIsSumTimesMultiplier ==
    (op = "predict" /\ ret.results # << >>) =>
        LET last == ret.results[Len(ret.results)]
            sum == AdditiveScore(arg, last.Start)
            m == WindowProduct(arg, last.Start)
        IN  /\ last.Score = MulDivRound(sum, m, 1000000)
            /\ \A i \in DOMAIN ret.results :
                 LET other == ret.results[i]
                     other_m == WindowProduct(arg, other.Start)
                 IN  /\ (m = 600000 /\ other_m = 1000000
                           /\ AdditiveScore(arg, other.Start) = sum)
                         => Abs(5 * last.Score - 3 * other.Score) <= 2
                     /\ (m = 1000000 /\ other_m = 600000
                           /\ AdditiveScore(arg, other.Start) = sum)
                         => Abs(5 * other.Score - 3 * last.Score) <= 2

\* C9's case: a finished scan with an interval in Rahu Kalam only and an
\* interval in no window, both with the same terms, a natal bonus and a
\* dasha penalty among them.
PredictScoredInAndOutOfRahuKalam ==
    /\ op = "predict" /\ pc = "done"
    /\ \E i, j \in DOMAIN ret.results :
          LET in == ret.results[i]
              out == ret.results[j]
              terms == ScoreTerms(arg, in.Start)
          IN  /\ in.Explanation = << "Rahu Kalam" >>
              /\ out.Explanation = << >>
              /\ terms = ScoreTerms(arg, out.Start)
              /\ terms.natal_bonus > 0
              /\ terms.dasha_penalty < 0
              /\ in.Score < out.Score

\* C10: the rows returned are in non-increasing order of Score, and rows of
\* equal Score are in the order of their Start, the order of the scan.
PredictRowsRankedStably ==
    (op = "predict" /\ pc = "done") =>
        \A i, j \in DOMAIN ret.df[1] :
            i < j =>
                /\ ret.df[1][i].Score >= ret.df[1][j].Score
                /\ ret.df[1][i].Score = ret.df[1][j].Score
                     => Instant(ret.df[1][i].Start) < Instant(ret.df[1][j].Start)

-----------------------------------------------------------------------------
(* ephemeris.py: the EphemerisCalculator object and its calls *)

\* A str is the sequence of its characters.  The letters, each lower-case
\* letter with its upper-case letter, as str.upper() and str.title() pair them.
Alphabet ==
    << <<"a", "A">>, <<"b", "B">>, <<"c", "C">>, <<"d", "D">>, <<"e", "E">>,
       <<"f", "F">>, <<"g", "G">>, <<"h", "H">>, <<"i", "I">>, <<"j", "J">>,
       <<"k", "K">>, <<"l", "L">>, <<"m", "M">>, <<"n", "N">>, <<"o", "O">>,
       <<"p", "P">>, <<"q", "Q">>, <<"r", "R">>, <<"s", "S">>, <<"t", "T">>,
       <<"u", "U">>, <<"v", "V">>, <<"w", "W">>, <<"x", "X">>, <<"y", "Y">>,
       <<"z", "Z">> >>

\* One character in the given case (2 is upper, 1 is lower); a character
\* that is no letter stays as it is.
InCase(c, case) ==
    IF \E i \in DOMAIN Alphabet : c \in { Alphabet[i][1], Alphabet[i][2] }
    THEN Alphabet[CHOOSE i \in DOMAIN Alphabet :
                     c \in { Alphabet[i][1], Alphabet[i][2] }][case]
    ELSE c

\* str.upper()
Upper(s) == [ i \in DOMAIN s |-> InCase(s[i], 2) ]

\* str.title(): a letter that begins the string or follows a character that
\* is no letter is put in upper case, every other letter in lower case
Title(s) ==
    [ i \in DOMAIN s |->
        IF i = 1 \/ InCase(s[i - 1], 1) = InCase(s[i - 1], 2)
        THEN InCase(s[i], 2)
        ELSE InCase(s[i], 1) ]

HOUSE_SYSTEMS ==
    (<< "P" >> :> "Placidus") @@ (<< "K" >> :> "Koch")
      @@ (<< "O" >> :> "Porphyrius") @@ (<< "R" >> :> "Regiomontanus")
      @@ (<< "C" >> :> "Campanus") @@ (<< "E" >> :> "Equal")
      @@ (<< "H" >> :> "Horizontal") @@ (<< "W" >> :> "Whole Sign")

PLANETS ==
    (<< "S", "u", "n" >> :> 0) @@ (<< "M", "o", "o", "n" >> :> 1)
      @@ (<< "M", "e", "r", "c", "u", "r", "y" >> :> 2)
      @@ (<< "V", "e", "n", "u", "s" >> :> 3) @@ (<< "M", "a", "r", "s" >> :> 4)
      @@ (<< "J", "u", "p", "i", "t", "e", "r" >> :> 5)
      @@ (<< "S", "a", "t", "u", "r", "n" >> :> 6)
      @@ (<< "U", "r", "a", "n", "u", "s" >> :> 7)
      @@ (<< "N", "e", "p", "t", "u", "n", "e" >> :> 8)
      @@ (<< "P", "l", "u", "t", "o" >> :> 9) @@ (<< "R", "a", "h", "u" >> :> 10)
      @@ (<< "K", "e", "t", "u" >> :> 11)

\* A plausible slip: the code is stored as it was given.
SetHouseSystemAsGiven(self, house_system) ==
    IF Upper(house_system) \notin DOMAIN HOUSE_SYSTEMS
    THEN [ raised |-> TRUE, self |-> self ]
    ELSE [ raised |-> FALSE,
           self |-> [ self EXCEPT !.house_system = house_system ] ]

\* set_house_system: whether it raises ValueError, and the calculator afterwards
SetHouseSystem(self, house_system) ==
    IF Upper(house_system) \notin DOMAIN HOUSE_SYSTEMS
    THEN [ raised |-> TRUE, self |-> self ]
    ELSE [ raised |-> FALSE,
           self |-> [ self EXCEPT !.house_system = Upper(house_system) ] ]

\* _fallback_houses: equal houses from the ascendant that
\* _approximate_ascendant computes
FallbackHouses(ascendant) ==
    [ name \in { HouseName(i) : i \in 1 .. 12 } |->
        LET i == CHOOSE k \in 1 .. 12 : HouseName(k) = name
        IN  (ascendant + (i - 1) * Deg(30)) % FullCircle ]

\* house_cusps: the mapping returned and, where Swiss Ephemeris is asked, the
\* house system code it is asked with.  swe tells whether swisseph was
\* imported; houses_ex is what swe.houses_ex returns (cusps, ascmc).
HouseCusps(self, swe, house_system, ascendant, houses_ex) ==
    IF ~swe
    THEN [ cusps |-> FallbackHouses(ascendant), hs |-> None ]
    ELSE LET hs == IF house_system # << >> THEN house_system
                   ELSE self.house_system
             cusp_dict ==
                 [ name \in { HouseName(i) : i \in 1 .. 12 } |->
                     LET i == CHOOSE k \in 1 .. 12 : HouseName(k) = name
                     IN  houses_ex.cusps[i] % FullCircle ]
         IN  [ cusps |-> ("Asc" :> houses_ex.ascmc[1])
                           @@ ("MC" :> houses_ex.ascmc[2]) @@ cusp_dict,
               hs |-> << hs >> ]

\* A plausible slip: the body is looked up as it was given.
BodyRiseSetUntitled(swe, when, body, tz_offset_hours, riseset, sun, target, rise_trans) ==
    IF body \notin DOMAIN PLANETS
    THEN [ raised |-> TRUE, value |-> None ]
    ELSE [ raised |-> FALSE,
           value |-> BodyRiseSet(when, tz_offset_hours, riseset, sun, target) ]

\* body_rise_set for any body name: whether it raises ValueError, and the
\* pair returned.  rise_trans is what the two swe.rise_trans calls give, the
\* hours of rise and set, or None where they raise swe.Error.
BodyRiseSetByName(swe, when, body, tz_offset_hours, riseset, sun, target, rise_trans) ==
    IF Title(body) \notin DOMAIN PLANETS
    THEN [ raised |-> TRUE, value |-> None ]
    ELSE IF swe /\ rise_trans # None
    THEN LET tz_offset == InferTimezoneOffset(when, tz_offset_hours)
             base == LocalMidnight(when, tz_offset)
         IN  [ raised |-> FALSE,
               value |-> << base + rise_trans[1] + tz_offset,
                            base + rise_trans[2] + tz_offset >> ]
    ELSE [ raised |-> FALSE,
           value |-> BodyRiseSet(when, tz_offset_hours, riseset, sun, target) ]

\* compute_gulika_mandi, given what sunrise_sunset returned: the instants the
\* ascendant is asked for and the two longitudes returned.  ascendant is
\* ascendant_longitude as a function of the instant; approximate is the pair
\* of _approximate_upagraha_longitude, used where the Sun has no rise or set.
ComputeGulikaMandi(when, riseset, ascendant, approximate) ==
    IF riseset = None THEN [ asked |-> << >>, value |-> approximate ]
    ELSE LET weekday == Weekday(when)
             day_segment == RoundHalfEven(riseset[2] - riseset[1], 8)
             gulika_indices == << 5, 4, 3, 2, 1, 0, 6 >>
             gulika_index == gulika_indices[weekday + 1]
             gulika_start == riseset[1] + gulika_index * day_segment
             mandi_start == gulika_start + RoundHalfEven(day_segment, 2)
         IN  [ asked |-> << gulika_start, mandi_start >>,
               value |-> << ascendant[gulika_start], ascendant[mandi_start] >> ]

\* Calls made on one calculator in a run.
MaxCalls == 3

\* The instants asked about: a naive Thursday noon and a Sunday 23:00 UTC.
CalculatorInstants ==
    { [ wall |-> 3 * TicksPerDay + 12 * TicksPerHour, offset |-> 0,
        aware |-> FALSE ],
      [ wall |-> 6 * TicksPerDay + 23 * TicksPerHour, offset |-> 0,
        aware |-> TRUE ] }

\* EphemerisCalculator(): a new calculator with its two attributes, with or
\* without swisseph imported; no call made yet.
InitCalculator ==
    /\ op = "EphemerisCalculator"
    /\ pc = "returned"
    /\ arg \in { [ self |-> [ ayanamsa |-> "lahiri", house_system |-> << "P" >> ],
                    swe |-> swe, calls |-> 0 ] : swe \in BOOLEAN }
    /\ ret = [ call |-> None, value |-> None ]

CallSetAyanamsa ==
    /\ arg.calls < MaxCalls
    /\ \E ayanamsa \in { "lahiri", "raman" } :
          /\ arg' = [ arg EXCEPT !.self.ayanamsa = ayanamsa, !.calls = @ + 1 ]
          /\ ret' = [ call |-> [ ayanamsa |-> ayanamsa ], value |-> None ]
    /\ op' = "set_ayanamsa"
    /\ pc' = "returned"

CallSetHouseSystem ==
    /\ arg.calls < MaxCalls
    /\ \E house_system \in { << "P" >>, << "k" >>, << "x" >>, << >>,
                             << "P", "K" >>, << "1" >> } :
          LET result == SetHouseSystem(arg.self, house_system)
          IN  /\ arg' = [ arg EXCEPT !.self = result.self, !.calls = @ + 1 ]
              /\ ret' = [ call |-> [ house_system |-> house_system ],
                          value |-> None ]
              /\ pc' = IF result.raised THEN "raised" ELSE "returned"
    /\ op' = "set_house_system"

\* house_cusps(when, latitude, longitude) or with a house system named; the
\* parameter's default is "P"
CallHouseCusps ==
    /\ arg.calls < MaxCalls
    /\ \E named \in { None, << << >> >>, << << "K" >> >> },
          ascendant \in { 0, Deg(100) + Eighth, Deg(350) } :
          LET house_system == IF named = None THEN << "P" >> ELSE named[1]
              houses_ex ==
                  [ cusps |-> [ i \in 1 .. 12 |-> ascendant + (i - 1) * Deg(30) ],
                    ascmc |-> << ascendant, (ascendant + Deg(270)) % FullCircle >> ]
          IN  ret' = [ call |-> [ house_system |-> named ],
                       value |-> HouseCusps(arg.self, arg.swe, house_system,
                                            ascendant, houses_ex) ]
    /\ arg' = [ arg EXCEPT !.calls = @ + 1 ]
    /\ op' = "house_cusps"
    /\ pc' = "returned"

\* The two instants with and without a named offset, the Sun not rising, not
\* setting, up for no time, for 12 and for 16 hours, or setting before it
\* rises; and the noon of every day of a week with the Sun up for 16 hours.
CallRahuKalamPeriods ==
    /\ arg.calls < MaxCalls
    /\ \E call \in
            { [ when |-> when, tz_offset_hours |-> tz_offset_hours,
                rise_ut |-> uts[1], set_ut |-> uts[2] ] :
                when \in CalculatorInstants,
                tz_offset_hours \in { None, << 5 * TicksPerHour >> },
                uts \in { << None, None >>, << None, << 18 * TicksPerHour >> >>,
                          << << 6 * TicksPerHour >>, << 6 * TicksPerHour >> >>,
                          << << 6 * TicksPerHour >>, << 18 * TicksPerHour >> >>,
                          << << 6 * TicksPerHour >>, << 22 * TicksPerHour >> >>,
                          << << 18 * TicksPerHour >>, << 6 * TicksPerHour >> >> } }
            \cup
            { [ when |-> [ wall |-> days * TicksPerDay + 12 * TicksPerHour,
                           offset |-> 0, aware |-> TRUE ],
                tz_offset_hours |-> None,
                rise_ut |-> << 6 * TicksPerHour >>,
                set_ut |-> << 22 * TicksPerHour >> ] : days \in 0 .. 6 } :
          ret' = [ call |-> call,
                   value |-> RahuKalamPeriods(call.when,
                                 SunriseSunset(call.when, call.tz_offset_hours,
                                               call.rise_ut, call.set_ut)) ]
    /\ arg' = [ arg EXCEPT !.calls = @ + 1 ]
    /\ op' = "rahu_kalam_periods"
    /\ pc' = "returned"

CallBodyRiseSet ==
    /\ arg.calls < MaxCalls
    /\ \E when \in CalculatorInstants,
          body \in { << "S", "u", "n" >>, << "m", "o", "o", "n" >>,
                     << "R", "A", "H", "U" >>, << "G", "u", "l", "i", "k", "a" >>,
                     << "m", "o", "o", "n", " " >> },
          tz_offset_hours \in { None, << 5 * TicksPerHour >> },
          uts \in { << None, None >>,
                    << << 6 * TicksPerHour >>, << 18 * TicksPerHour >> >> },
          target \in { Deg(90), Deg(350) + Eighth },
          rise_trans \in { None, << 7 * TicksPerHour, 19 * TicksPerHour >> } :
          LET riseset == SunriseSunset(when, tz_offset_hours, uts[1], uts[2])
              result == BodyRiseSetByName(arg.swe, when, body, tz_offset_hours,
                                          riseset, [ longitude |-> Deg(20) ],
                                          [ longitude |-> target ], rise_trans)
          IN  /\ ret' = [ call |-> [ when |-> when, body |-> body,
                                     tz_offset_hours |-> tz_offset_hours ],
                          value |-> result.value ]
              /\ pc' = IF result.raised THEN "raised" ELSE "returned"
    /\ arg' = [ arg EXCEPT !.calls = @ + 1 ]
    /\ op' = "body_rise_set"

\* compute_gulika_mandi; the ascendant goes round once a day from a phase
\* that the place decides
CallComputeGulikaMandi ==
    /\ arg.calls < MaxCalls
    /\ \E when \in CalculatorInstants,
          tz_offset_hours \in { None, << 5 * TicksPerHour >> },
          uts \in { << None, None >>,
                    << << 6 * TicksPerHour >>, << 22 * TicksPerHour >> >>,
                    << << 2 * TicksPerHour >>, << 18 * TicksPerHour >> >> },
          phase \in { 0, Deg(100) + Eighth } :
          LET riseset == SunriseSunset(when, tz_offset_hours, uts[1], uts[2])
              ascendant ==
                  [ t \in (Instant(when) - 2 * TicksPerDay)
                            .. (Instant(when) + 2 * TicksPerDay) |->
                      (phase + (t % TicksPerDay) * (FullCircle \div TicksPerDay))
                        % FullCircle ]
          IN  ret' = [ call |-> [ when |-> when,
                                  tz_offset_hours |-> tz_offset_hours,
                                  rise_ut |-> uts[1], set_ut |-> uts[2],
                                  ascendant |-> ascendant ],
                       value |-> ComputeGulikaMandi(when, riseset, ascendant,
                                                    << phase, Deg(11) >>) ]
    /\ arg' = [ arg EXCEPT !.calls = @ + 1 ]
    /\ op' = "compute_gulika_mandi"
    /\ pc' = "returned"

SpecCalculator ==
    InitCalculator
      /\ [][CallSetAyanamsa \/ CallSetHouseSystem \/ CallHouseCusps
              \/ CallRahuKalamPeriods \/ CallBodyRiseSet
              \/ CallComputeGulikaMandi]_vars

\* C11: for every instant and location rahu_kalam_periods returns exactly
\* three periods, in the order Rahu Kalam, Yamaganda, Gulika Kalam, each with
\* start < end, each lasting one eighth of the daylight and lying within
\* [sunrise, sunset] of that day.
RahuKalamThreeEighthsOfDaylight ==
    (op = "rahu_kalam_periods") =>
        LET riseset == SunriseSunset(ret.call.when, ret.call.tz_offset_hours,
                                     ret.call.rise_ut, ret.call.set_ut)
            periods == ret.value
        IN  /\ Len(periods) = 3
            /\ periods[1].name = "Rahu Kalam"
            /\ periods[2].name = "Yamaganda"
            /\ periods[3].name = "Gulika Kalam"
            /\ \A i \in 1 .. 3 :
                  /\ periods[i].start < periods[i].end
                  /\ 8 * (periods[i].end - periods[i].start)
                       = riseset[2] - riseset[1]
                  /\ riseset[1] <= periods[i].start
                  /\ periods[i].end <= riseset[2]

\* C12: house_cusps returns, on the precise path and on the fallback path
\* alike, a mapping with exactly the 12 entries House 1 .. House 12 plus the
\* entries Asc and MC, every value a longitude in [0, 360).
HouseCuspsHaveAscAndMC ==
    (op = "house_cusps") =>
        /\ DOMAIN ret.value.cusps
             = { HouseName(i) : i \in 1 .. 12 } \cup { "Asc", "MC" }
        /\ \A name \in DOMAIN ret.value.cusps :
              /\ 0 <= ret.value.cusps[name]
              /\ ret.value.cusps[name] < FullCircle

\* C13: after any sequence of set_house_system and set_ayanamsa calls on a
\* calculator (initially "P") house_system is one of the eight codes, stored
\* upper-case; a set_house_system call with a code that is none of them
\* raises and leaves house_system and ayanamsa unchanged (a call with one of
\* them, in either case, stores its upper case and leaves ayanamsa alone).
HouseSystemStaysValid ==
    [][ /\ arg.self.house_system \in DOMAIN HOUSE_SYSTEMS
        /\ arg'.self.house_system \in DOMAIN HOUSE_SYSTEMS
        /\ Upper(arg'.self.house_system) = arg'.self.house_system
        /\ (op' = "set_ayanamsa") =>
              arg'.self.house_system = arg.self.house_system
        /\ (op' = "set_house_system") =>
              LET code == ret'.call.house_system
              IN  IF Upper(code) \in DOMAIN HOUSE_SYSTEMS
                  THEN /\ pc' = "returned"
                       /\ arg'.self.house_system = Upper(code)
                       /\ arg'.self.ayanamsa = arg.self.ayanamsa
                  ELSE /\ pc' = "raised"
                       /\ arg'.self = arg.self ]_vars

\* C13's case: the house system was changed with a lower-case code and the
\* ayanamsa changed, and a later set_house_system call was refused.
HouseSystemRefusedAfterChanges ==
    /\ op = "set_house_system"
    /\ pc = "raised"
    /\ ret.call.house_system = << "P", "K" >>
    /\ arg.self = [ ayanamsa |-> "raman", house_system |-> << "K" >> ]

\* C17: body_rise_set raises an input error for every body name that, after
\* title-casing, is not one of the 12 primary bodies, and changes no
\* calculator state when it does; for a known body it returns a pair with
\* both a rise and a set instant, never one of them alone.
BodyRiseSetRefusesUnknownBodies ==
    [][ (op' = "body_rise_set") =>
          /\ arg'.self = arg.self
          /\ arg'.swe = arg.swe
          /\ (pc' = "raised") <=> (Title(ret'.call.body) \notin DOMAIN PLANETS)
          /\ (pc' = "raised") => ret'.value = None
          /\ (pc' = "returned") =>
                /\ Len(ret'.value) = 2
                /\ \A i \in 1 .. 2 : ret'.value[i] \in Int ]_vars

\* C17's case: on a calculator whose house system and ayanamsa were changed,
\* body_rise_set refused the upagraha Gulika, which is no primary body.
BodyRiseSetRefusedGulika ==
    /\ op = "body_rise_set"
    /\ pc = "raised"
    /\ ret.call.body = << "G", "u", "l", "i", "k", "a" >>
    /\ arg.self = [ ayanamsa |-> "raman", house_system |-> << "K" >> ]

\* C23: after a successful set_house_system(X), every later house_cusps
\* query that does not name a house system itself computes its cusps with
\* system X, until the next successful set_house_system.  Stated for X other
\* than the initial "P": house_system is then X by a successful call.
HouseCuspsUseConfiguredSystem ==
    (op = "house_cusps" /\ ret.call.house_system = None
       /\ arg.self.house_system # << "P" >>) =>
        ret.value.hs = << arg.self.house_system >>

\* C24: when sunrise and sunset are defined, compute_gulika_mandi divides the
\* daylight into 8 equal segments and takes as Gulika's longitude the
\* ascendant at the start of the segment selected by weekday from Gulika's
\* table, and as Mandi's longitude the ascendant at the start of the segment
\* selected by weekday from Mandi's own table, the tables being indexed with
\* Sunday first.
GulikaAndMandiAtSegmentStarts ==
    (op = "compute_gulika_mandi") =>
        LET riseset == SunriseSunset(ret.call.when, ret.call.tz_offset_hours,
                                     ret.call.rise_ut, ret.call.set_ut)
            sunday_first == (Weekday(ret.call.when) + 1) % 7
        IN  riseset # None =>
                /\ 8 * ret.value.asked[1]
                     = 8 * riseset[1]
                         + << 5, 4, 3, 2, 1, 0, 6 >>[sunday_first + 1]
                             * (riseset[2] - riseset[1])
                /\ \E index \in 0 .. 7 :
                      8 * ret.value.asked[2]
                        = 8 * riseset[1] + index * (riseset[2] - riseset[1])
                /\ ret.value.value
                     = << ret.call.ascendant[ret.value.asked[1]],
                          ret.call.ascendant[ret.value.asked[2]] >>


\* C28: for every weekday the Rahu Kalam, Yamaganda and Gulika Kalam windows
\* returned by rahu_kalam_periods occupy three different eighths of the
\* daylight span, so they are pairwise disjoint as half-open intervals, and
\* the predictor's penalty multiplier at any instant is one of 1, 0.6, 0.75
\* or 0.8, never a product of two factors.
KalamWindowsInDifferentEighths ==
    (op = "rahu_kalam_periods" /\ ret.value # << >>) =>
        LET periods == ret.value
            riseset == SunriseSunset(ret.call.when, ret.call.tz_offset_hours,
                                     ret.call.rise_ut, ret.call.set_ut)
            day_segment == RoundHalfEven(riseset[2] - riseset[1], 8)
            Eighths(i) == CHOOSE index \in 0 .. 7 :
                              periods[i].start = riseset[1] + index * day_segment
        IN  /\ << periods[1].name, periods[2].name, periods[3].name >>
                 = << "Rahu Kalam", "Yamaganda", "Gulika Kalam" >>
            /\ \A i \in 1 .. 3 :
                  /\ \E index \in 0 .. 7 :
                        periods[i].start = riseset[1] + index * day_segment
                  /\ periods[i].end = periods[i].start + day_segment
            /\ day_segment > 0 =>
                  \A i, j \in 1 .. 3 : i # j => Eighths(i) # Eighths(j)
            /\ \A i, j \in 1 .. 3 :
                  i # j => \/ periods[i].end <= periods[j].start
                           \/ periods[j].end <= periods[i].start
                           \/ periods[i].end <= periods[i].start
                           \/ periods[j].end <= periods[j].start
            /\ \A t \in (riseset[1] - 2) .. (riseset[2] + 2) :
                  TemporalPenalties([ wall |-> t, offset |-> 0, aware |-> TRUE ],
                                    periods).multiplier \in {100, 60, 75, 80}

\* C28's case: the windows of a Sunday with the Sun up for 16 hours, Rahu
\* Kalam in the last eighth and Gulika Kalam in the one before it; at the
\* start of Yamaganda the multiplier is 0.75.
KalamWindowsOfSunday ==
    /\ op = "rahu_kalam_periods" /\ ret.value # << >>
    /\ Weekday(ret.call.when) = 6
    /\ ret.value[1].end - ret.value[1].start = 2 * TicksPerHour
    /\ ret.value[1].start - ret.value[3].start = 2 * TicksPerHour
    /\ TemporalPenalties([ wall |-> ret.value[2].start, offset |-> 0, aware |-> TRUE ],
                         ret.value).multiplier = 75

-----------------------------------------------------------------------------
(* strength.py: the rows of shadbala and bhavabala *)

\* C14: shadbala returns one row for each of the seven bodies Sun .. Saturn
\* present in the positions and no row for Rahu, Ketu or any other body,
\* whatever bodies the positions mapping contains.
ShadbalaRowsForSevenBodies ==
    (op = "shadbala" /\ pc = "done") =>
        DOMAIN ret
          = DOMAIN arg.positions
              \cap { "Sun", "Moon", "Mars", "Mercury", "Jupiter", "Venus", "Saturn" }

\* Charts and cusp mappings for bhavabala: equal houses from an ascendant,
\* equal houses from 0 degrees with another "Asc", unequal cusps, and a
\* mapping without house cusps.
InitBhavabala ==
    /\ op = "bhavabala"
    /\ pc = "call"
    /\ arg \in { [ positions |-> p, houses |-> h,
                   vargas |-> VargaSummary(<< "D1", "D9" >>,
                                 [ planet \in DOMAIN p |-> p[planet].longitude ]) ] :
                   p \in { Chart(count, slots, first, spread, 17, 50) :
                             count \in {2, 7, 10}, slots \in ChartSlots,
                             first \in { Deg(0), Deg(130), Deg(360) - Eighth },
                             spread \in { Deg(5), Deg(37) } },
                   h \in { FallbackHouses(Deg(100) + Eighth),
                           ("Asc" :> Deg(250)) @@ FallbackHouses(0),
                           [ name \in { HouseName(i) : i \in 1 .. 12 } |->
                               Deg(<< 10, 35, 62, 95, 130, 165, 190, 215, 242,
                                      275, 310, 345 >>[CHOOSE k \in 1 .. 12 :
                                                          HouseName(k) = name]) ],
                           [ name \in {"Asc"} |-> Deg(15) ] } }
    /\ ret = << >>

\* bhavabala: the rows of the DataFrame, in the order they are appended
ComputeBhavabala ==
    /\ op = "bhavabala" /\ pc = "call"
    /\ ret' = [ house \in 1 .. 12 |->
                  [ House |-> house,
                    Strength |-> Bhavabala(arg.positions, arg.houses,
                                           arg.vargas)[house] ] ]
    /\ pc' = "done"
    /\ UNCHANGED <<op, arg>>

SpecBhavabala == InitBhavabala /\ [][ComputeBhavabala]_vars

\* C18: bhavabala returns exactly 12 rows, for houses 1 .. 12 in ascending
\* order, and each row's Strength equals (Shadbala Total of the lord of the
\* sign on that house's cusp) / 4 + 10 x (benefics in the house - malefics in
\* the house) + 5 x (benefics - malefics whose longitude is less than 120
\* degrees from the house cusp) + (10 for houses 1, 4, 7, 10, else 5); a cusp
\* the mapping lacks counts as 0 degrees and a lord without a Shadbala row as
\* a Total of 120.  Strengths are in quarters of a PointUnit.
BhavabalaStrengthIsSumOfFourParts ==
    (op = "bhavabala" /\ pc = "done") =>
        /\ Len(ret) = 12
        /\ \A house \in 1 .. 12 :
              LET cusp == IF HouseName(house) \in DOMAIN arg.houses
                          THEN arg.houses[HouseName(house)] ELSE 0
                  lord == SIGN_RULERS[rasi(cusp)]
                  totals == Shadbala(arg.positions, arg.houses, arg.vargas)
                  total == IF lord \in DOMAIN totals THEN totals[lord].Total
                           ELSE Points(120)
                  Away(planet) ==
                      LET d == (arg.positions[planet].longitude - cusp) % FullCircle
                      IN  Min(d, FullCircle - d)
                  Count(kind, Counted(_)) ==
                      Cardinality({ planet \in DOMAIN arg.positions \cap kind :
                                      Counted(planet) })
                  InHouse(planet) ==
                      HouseForLongitude(arg.houses, arg.positions[planet].longitude)
                        = house
                  Near(planet) == Away(planet) < Deg(120)
                  benefics == {"Jupiter", "Venus", "Mercury", "Moon"}
                  malefics == {"Saturn", "Mars", "Sun", "Rahu", "Ketu"}
              IN  /\ ret[house].House = house
                  /\ ret[house].Strength
                       = total
                           + 4 * Points(10 * (Count(benefics, InHouse)
                                                - Count(malefics, InHouse))
                                          + 5 * (Count(benefics, Near)
                                                   - Count(malefics, Near))
                                          + (IF house \in {1, 4, 7, 10} THEN 10
                                             ELSE 5))

\* C18's case: a chart of all bodies on unequal cusps, a body standing in the
\* 5th house exactly 120 degrees from the 1st cusp, and the 1st and 5th
\* houses of different strength.
BhavabalaOnUnequalCusps ==
    /\ op = "bhavabala" /\ pc = "done"
    /\ "House 1" \in DOMAIN arg.houses
    /\ arg.houses["House 1"] = Deg(10)
    /\ Cardinality(DOMAIN arg.positions) = 10
    /\ \E planet \in DOMAIN arg.positions :
          /\ arg.positions[planet].longitude = Deg(130)
          /\ HouseForLongitude(arg.houses, arg.positions[planet].longitude) = 5
    /\ ret[1].Strength # ret[5].Strength


\* C26: for each of the seven bodies the exaltation (Uchcha) component
\* equals (angular distance from the body's debilitation point) / 3, lies in
\* [0, 60], is 60 at the body's exaltation point as documented (Sun 10 Aries,
\* Moon 3 Taurus, Mars 28 Capricorn, Mercury 15 Virgo, Jupiter 5 Cancer,
\* Venus 27 Pisces, Saturn 20 Libra, Aries starting at longitude 0) and 0 at
\* the point 180 degrees opposite.
UchchaFromDocumentedExaltation ==
    (op = "shadbala" /\ pc = "done") =>
        \A planet \in DOMAIN ret \cap DOMAIN EXALTATION_POINTS :
            LET documented == [ Sun |-> 10, Moon |-> 30 + 3, Mars |-> 270 + 28,
                                Mercury |-> 150 + 15, Jupiter |-> 90 + 5,
                                Venus |-> 330 + 27, Saturn |-> 180 + 20 ]
                exaltation == Deg(documented[planet])
                debilitation == (exaltation + Deg(180)) % FullCircle
                longitude == arg.positions[planet].longitude
                around == (longitude - debilitation + FullCircle) % FullCircle
                distance == IF around > Deg(180) THEN FullCircle - around ELSE around
                uchcha == UchchaBala(planet, arg.positions[planet])
            IN  /\ uchcha = RoundHalfEven(distance * PointUnits, 3 * UnitsPerDegree)
                /\ uchcha >= 0 /\ uchcha <= Points(60)
                /\ longitude = exaltation => uchcha = Points(60)
                /\ longitude = debilitation => uchcha = 0

-----------------------------------------------------------------------------
(* dasha.py: the lords and the levels of the sub-periods *)

\* C15: for every parent period P that is subdivided, its 9 sub-periods
\* follow the cyclic lord order beginning with P's own lord, so the first
\* sub-period of P has lord P.lord; each sub-period lasts P's duration times
\* (the sub-lord's years / 120).
SubPeriodsBeginWithParentLord ==
    (op = "dasha" /\ pc = "done") =>
        \A k \in DOMAIN ret :
            ret[k].level < arg.levels =>
                LET at == SubPeriodIndexes(k, ret[k].level, arg.levels)
                    first == CHOOSE n \in 1 .. 9 : DASHA_ORDER[n] = ret[k].lord
                    duration == ret[k].end - ret[k].start
                IN  \A i \in 1 .. 9 :
                        LET lord == DASHA_ORDER[((first + i - 2) % 9) + 1]
                        IN  /\ ret[at[i]].lord = lord
                            /\ ret[at[i]].end - ret[at[i]].start
                                 = RoundHalfEven(duration * DASHA_YEARS[lord], 120)

\* C16: compute_vimshottari(m, b, levels=L) with L >= 1 returns periods of
\* every level 1 .. L and of no deeper level, exactly 9^k of them at level k;
\* each period of level k > 1 is one of the 9 sub-periods of a period of
\* level k - 1, starts within [its start, its end] and carries its lord as parent, and level-1
\* periods have no parent; with levels <= 1 the 9 level-1 periods are returned.
PeriodsOfEveryLevel ==
    (op = "dasha" /\ pc = "done") =>
        LET depth == Max(arg.levels, 1)
            power9[k \in 0 .. depth] == IF k = 0 THEN 1 ELSE 9 * power9[k - 1]
            AtLevel(k) == { j \in DOMAIN ret : ret[j].level = k }
            SubPeriodsOf(k) ==
                { SubPeriodIndexes(k, ret[k].level, arg.levels)[i] : i \in 1 .. 9 }
        IN  /\ \A j \in DOMAIN ret : ret[j].level \in 1 .. depth
            /\ \A k \in 1 .. depth : Cardinality(AtLevel(k)) = power9[k]
            /\ \A j \in AtLevel(1) : ret[j].parent = "None"
            /\ \A k \in DOMAIN ret :
                  ret[k].level < depth =>
                      \A j \in SubPeriodsOf(k) :
                          /\ ret[j].level = ret[k].level + 1
                          /\ ret[j].parent = ret[k].lord
                          /\ ret[k].start <= ret[j].start
                          /\ ret[j].start <= ret[k].end
            /\ UNION { SubPeriodsOf(k) : k \in { j \in DOMAIN ret : ret[j].level < depth } }
                 = { j \in DOMAIN ret : ret[j].level > 1 }
            /\ (arg.levels <= 1) => Len(ret) = 9

\* C16's case: three levels asked for, 9 + 81 + 729 periods returned, the
\* last of them a level-3 period of Mercury within Mercury's sub-period of
\* the ninth level-1 period, whose lord is not Mercury.
ThreeLevelsReturned ==
    /\ op = "dasha" /\ pc = "done"
    /\ arg.levels = 3
    /\ Len(ret) = 9 + 81 + 729
    /\ ret[Len(ret)].level = 3
    /\ ret[Len(ret)].parent = "Mercury"
    /\ ret[9].lord # "Mercury"
    /\ ret[Len(ret) - 9].level = 2
    /\ ret[Len(ret) - 9].parent = ret[9].lord

\* C21: the level-1 periods are exactly 9, one per lord, in the cyclic order
\* starting from the birth nakshatra's lord; each period after the first
\* starts exactly where its predecessor ends and lasts its lord's full
\* allotment, so the level-1 timeline has no gap or overlap and spans 120
\* years minus the elapsed part of the first lord's allotment.
LevelOneTimelineFromBirthLord ==
    (op = "dasha" /\ pc = "done") =>
        LET m == arg.moon_longitude
            first == (m \div NAKSHATRA_DEGREES) % 9
            LordAt(k) == DASHA_ORDER[((first + k - 1) % 9) + 1]
            ahead == NAKSHATRA_DEGREES - (m % NAKSHATRA_DEGREES)
            balance == MulDivRound(DASHA_YEARS[LordAt(1)] * ahead, TicksPerYear,
                                   NAKSHATRA_DEGREES)
            elapsed == DASHA_YEARS[LordAt(1)] * TicksPerYear - balance
        IN  /\ { j \in DOMAIN ret : ret[j].level = 1 } = 1 .. 9
            /\ { ret[k].lord : k \in 1 .. 9 } = { DASHA_ORDER[i] : i \in 1 .. 9 }
            /\ \A k \in 1 .. 9 : ret[k].lord = LordAt(k)
            /\ ret[1].start = arg.birth_datetime
            /\ \A k \in 2 .. 9 :
                  /\ ret[k].start = ret[k - 1].end
                  /\ ret[k].end - ret[k].start
                       = DASHA_YEARS[ret[k].lord] * TicksPerYear
            /\ ret[9].end - ret[1].start = 120 * TicksPerYear - elapsed

-----------------------------------------------------------------------------
(* varga.py: the generic uniform rule *)

\* C19: for every uniform division Dn, when the longitude moves from one part
\* of width 30/n degrees to the next part, the resulting sign advances by
\* exactly one sign, so that the 12 parts following a sign boundary map to 12
\* different signs.
UniformDivisionAdvancesBySign ==
    \A placement \in Placements :
        placement.division
            \in { "D2", "D4", "D5", "D6", "D7", "D8", "D10", "D11", "D12", "D16",
                  "D20", "D24", "D27", "D30", "D40", "D45", "D60" } =>
            LET n == DivisionNumber(placement.division)
                L == arg.planetary_longitudes[placement.planet]
                next == (L + DegreesInPart(n)) % FullCircle
                Start(k) == ((L \div Deg(30)) * Deg(30) + k * DegreesInPart(n))
                              % FullCircle
            IN  /\ SignIndexOf(GetVarga(placement.division, next))
                     = (SignIndexOf(placement.sign) + 1) % 12
                /\ Cardinality({ GetVarga(placement.division, Start(k)) :
                                   k \in 0 .. 11 }) = 12

\* C20: for every longitude L, drekkana(L) equals the sign _uniform_division
\* yields for n = 3 and navamsa(L) the sign it yields for n = 9.
NamedDivisionsAreUniform ==
    \A placement \in Placements :
        LET L == arg.planetary_longitudes[placement.planet]
        IN  /\ placement.division = "D3" =>
                  /\ placement.sign = drekkana(L)
                  /\ placement.sign = UniformDivision(L, 3, 0)
            /\ placement.division = "D9" =>
                  /\ placement.sign = navamsa(L)
                  /\ placement.sign = UniformDivision(L, 9, 0)

-----------------------------------------------------------------------------
(* ai.py: the lord of the dasha penalty, the rows of a scan, the windows *)

\* C22: with a birth instant and a birth Moon longitude given, the lord
\* predict tests for the dasha penalty at an instant t is the lord of the
\* deepest-level period, among the 3 levels computed, whose span [start, end)
\* contains t, falling back to the parent level only when no deeper period
\* contains t; the penalty (the activity's dasha_impact) is added exactly
\* when that lord is Saturn, Mars, Rahu or Ketu.  Stated of the interval
\* scanned last.
DashaPenaltyFollowsDeepestLord ==
    (op = "predict" /\ ret.results # << >>
       /\ arg.birth_dt # None /\ arg.birth_moon_lon # None) =>
        LET last == ret.results[Len(ret.results)]
            t == Instant(last.Start)
            dashas == ComputeVimshottari(arg.birth_moon_lon[1],
                                         Instant(arg.birth_dt[1]), 3)
            Containing(level) ==
                { i \in DOMAIN dashas :
                    /\ dashas[i].level = level
                    /\ dashas[i].start <= t
                    /\ t < dashas[i].end }
            deepest == CHOOSE level \in 0 .. 3 :
                          /\ level > 0 => Containing(level) # {}
                          /\ \A deeper \in (level + 1) .. 3 : Containing(deeper) = {}
            lords == { dashas[i].lord : i \in Containing(deepest) }
            weights == Weights(arg.activity)
            terms == ScoreTerms(arg, last.Start)
            penalty == IF lords \cap {"Saturn", "Mars", "Rahu", "Ketu"} # {}
                       THEN weights.dasha_impact ELSE 0
        IN  /\ terms.dasha_penalty = penalty
            /\ last.Score
                 = Score(weights, [ terms EXCEPT !.dasha_penalty = penalty ],
                         TemporalPenalties(last.Start,
                                           PenaltyPeriods(arg, last.Start)).multiplier)

\* C27: for interval_minutes >= 1 predict terminates and returns exactly one
\* row for each instant start + k * interval strictly before end
\* (ceil((end - start) / interval) rows, none when start >= end), each with
\* End = Start + interval; no scanned interval is skipped, and an engine
\* failure propagates instead of dropping a row.  With interval_minutes <= 0
\* and start < end the scan never terminates: it neither returns nor, the
\* engine not failing, leaves the loop in any other way.
PredictScansEveryInterval ==
    LET interval == Minutes(arg.interval_minutes)
        span == Instant(arg.end) - Instant(arg.start)
        count == IF span <= 0 THEN 0 ELSE (span + interval - 1) \div interval
        Scanned(rows, n) ==
            /\ Len(rows) = n
            /\ \A k \in 0 .. n - 1 :
                  \E i \in DOMAIN rows :
                      /\ rows[i].Start = [ arg.start EXCEPT !.wall = @ + k * interval ]
                      /\ rows[i].End = [ rows[i].Start EXCEPT !.wall = @ + interval ]
    IN  op = "predict" =>
          /\ arg.interval_minutes >= 1 =>
               /\ pc = "scan" =>
                    /\ Len(ret.results) <= count
                    /\ Scanned(ret.results, Len(ret.results))
                    /\ ret.current
                         = [ arg.start EXCEPT !.wall = @ + Len(ret.results) * interval ]
               /\ pc = "done" => Scanned(ret.df[1], count)
               /\ pc = "raised" => PredictRaises(arg, ret.current) /\ ret.df = None
          /\ (arg.interval_minutes <= 0 /\ span > 0) =>
               /\ pc # "done"
               /\ pc = "raised" => PredictRaises(arg, ret.current)

-----------------------------------------------------------------------------
(* yoga.py: the YogaDetector *)

\* YogaDetector._house_for_longitude; a "House 1" cusp of 0.0 is falsy and
\* falls through to "Asc"
YogaHouseForLongitude(longitude, houses) ==
    LET asc == IF "House 1" \in DOMAIN houses /\ houses["House 1"] # 0
               THEN houses["House 1"]
               ELSE IF "Asc" \in DOMAIN houses THEN houses["Asc"] ELSE 0
        diff == (longitude - asc + FullCircle) % FullCircle
    IN  (diff \div Deg(30)) + 1

\* A plausible slip: a rule that is not recognised fails the yoga.
SatisfiesKnownRulesOnly(yoga, houses, positions) ==
    \A i \in DOMAIN yoga.conditions :
        /\ yoga.conditions[i][1] \in DOMAIN positions
        /\ yoga.conditions[i][2]
             \in { [ keyword |-> "kendra_from_Jupiter", argument |-> None ],
                   [ keyword |-> "conjunction_Mars", argument |-> None ] }
        /\ LET Get(name) == IF name \in DOMAIN positions THEN positions[name] ELSE 0
               moon_house == YogaHouseForLongitude(Get("Moon"), houses)
           IN  IF yoga.conditions[i][2].keyword = "kendra_from_Jupiter"
               THEN (moon_house - YogaHouseForLongitude(Get("Jupiter"), houses)) % 12
                      \in {0, 3, 9}
               ELSE moon_house = YogaHouseForLongitude(Get("Mars"), houses)

\* _satisfies.  The conditions of a yoga are the pairs << planet, rule >> of
\* its dict in their order; a rule is its text before the first "(" (keyword)
\* and, where it has one, the text after it without the closing ")"
\* (argument): "is_combust()" has the argument "", "conjunction_Mars" none.
Satisfies(yoga, houses, positions) ==
    LET Get(name) == IF name \in DOMAIN positions THEN positions[name] ELSE 0
        AngularDistance(lon1, lon2) ==
            Abs(((lon1 - lon2 + Deg(180)) % FullCircle) - Deg(180))
        HasAspect(planet, aspect_lon, target_lon) ==
            LET diff == AngularDistance(aspect_lon, target_lon)
                About(angle) == Abs(diff - Deg(angle)) <= Deg(6)
            IN  \/ About(180)
                \/ planet = "Mars" /\ (About(90) \/ About(270))
                \/ planet = "Jupiter" /\ (About(120) \/ About(240))
                \/ planet = "Saturn" /\ (About(60) \/ About(300))
        Holds(planet, rule) ==
            /\ planet \in DOMAIN positions
            /\ CASE rule.keyword = "kendra_from_Jupiter" /\ rule.argument = None ->
                      (YogaHouseForLongitude(Get("Moon"), houses)
                         - YogaHouseForLongitude(Get("Jupiter"), houses)) % 12
                        \in {0, 3, 9}
                 [] rule.keyword = "conjunction_Mars" /\ rule.argument = None ->
                      YogaHouseForLongitude(Get("Moon"), houses)
                        = YogaHouseForLongitude(Get("Mars"), houses)
                 [] rule.keyword = "lord_of_house" ->
                      HouseLord(houses, rule.argument[1]).lord = planet
                 [] rule.keyword = "in_trikona_from" ->
                      /\ rule.argument[1] \in DOMAIN positions
                      /\ (YogaHouseForLongitude(positions[planet], houses)
                            - YogaHouseForLongitude(positions[rule.argument[1]],
                                                    houses)) % 12
                           \in {0, 4, 8}
                 [] rule.keyword = "is_aspected_by" ->
                      /\ rule.argument[1] \in DOMAIN positions
                      /\ HasAspect(rule.argument[1], positions[rule.argument[1]],
                                   positions[planet])
                 [] rule.keyword = "is_combust" /\ rule.argument = << "" >> ->
                      /\ "Sun" \in DOMAIN positions
                      /\ AngularDistance(positions["Sun"], positions[planet])
                           <= Deg(8)
                 [] OTHER -> TRUE
    IN  \A i \in DOMAIN yoga.conditions :
            Holds(yoga.conditions[i][1], yoga.conditions[i][2])

\* detect: the rows of the DataFrame, in the order of self.yogas
Detect(yogas, houses, positions) ==
    LET satisfied == { i \in DOMAIN yogas : Satisfies(yogas[i], houses, positions) }
    IN  [ k \in 1 .. Cardinality(satisfied) |->
            LET i == CHOOSE j \in satisfied :
                        Cardinality({ l \in satisfied : l <= j }) = k
            IN  [ Yoga |-> yogas[i].name, Description |-> yogas[i].description ] ]

\* A detector with the yogas of _load_yogas where there is no yoga file, or
\* with yogas read from a file: conditions on other bodies than the Moon,
\* rules of every kind, rules that are not in the vocabulary, no conditions,
\* and a body no chart holds.  Cusp mappings and positions as for bhavabala.
InitYoga ==
    LET Rule(keyword, argument) == [ keyword |-> keyword, argument |-> argument ]
        Yoga(name, conditions) ==
            [ name |-> name, description |-> name, conditions |-> conditions ]
        default ==
            << Yoga("Gajakesari Yoga",
                    << << "Moon", Rule("kendra_from_Jupiter", None) >> >>),
               Yoga("Chandra-Mangal",
                    << << "Moon", Rule("conjunction_Mars", None) >> >>) >>
        file ==
            << Yoga("Venus with Mars",
                    << << "Venus", Rule("conjunction_Mars", None) >> >>),
               Yoga("Sun from Jupiter",
                    << << "Sun", Rule("kendra_from_Jupiter", None) >> >>),
               Yoga("Both",
                    << << "Saturn", Rule("conjunction_Mars", None) >>,
                       << "Mercury", Rule("kendra_from_Jupiter", None) >> >>),
               Yoga("Unrecognised",
                    << << "Saturn", Rule("is_exalted", << "" >>) >>,
                       << "Rahu", Rule("is_combust", None) >> >>),
               Yoga("No conditions", << >>),
               Yoga("Absent body", << << "Pluto", Rule("is_exalted", << "" >>) >> >>),
               Yoga("Trikona and combust",
                    << << "Mars", Rule("in_trikona_from", << "Sun" >>) >>,
                       << "Mercury", Rule("is_combust", << "" >>) >> >>),
               Yoga("Aspect and lord",
                    << << "Moon", Rule("is_aspected_by", << "Saturn" >>) >>,
                       << "Mars", Rule("lord_of_house", << 10 >>) >> >>) >>
    IN  /\ op = "detect"
        /\ pc = "call"
        /\ arg \in { [ yogas |-> y, houses |-> h,
                       positions |-> [ planet \in DOMAIN p |-> p[planet].longitude ] ] :
                       y \in { default, file },
                       p \in { Chart(count, slots, first, spread, 17, 50) :
                                 count \in {2, 7, 10}, slots \in ChartSlots,
                                 first \in { Deg(0), Deg(130), Deg(360) - Eighth },
                                 spread \in { Deg(5), Deg(37) } },
                       h \in { FallbackHouses(Deg(100) + Eighth),
                               ("Asc" :> Deg(250)) @@ FallbackHouses(0),
                               [ name \in {"Asc"} |-> Deg(15) ] } }
        /\ ret = << >>

DetectYogas ==
    /\ op = "detect" /\ pc = "call"
    /\ ret' = Detect(arg.yogas, arg.houses, arg.positions)
    /\ pc' = "done"
    /\ UNCHANGED <<op, arg>>

SpecYoga == InitYoga /\ [][DetectYogas]_vars

\* Whether detect reported the yoga.
Reported(yoga) == \E k \in DOMAIN ret : ret[k].Yoga = yoga.name

\* C25: for whichever body B a yoga condition names, {B: conjunction_Mars}
\* holds iff B and Mars occupy the same house, and {B: kendra_from_Jupiter}
\* iff (house(B) - house(Jupiter)) mod 12 is in {0, 3, 9}; a yoga is reported
\* only if every one of its conditions holds for the body it names.  Stated
\* of the yogas that have conditions of these two kinds only, houses being
\* numbered as the detector numbers them.
YogaConditionsTestTheNamedBody ==
    (op = "detect" /\ pc = "done") =>
        \A i \in DOMAIN arg.yogas :
            LET conditions == arg.yogas[i].conditions
                House(body) == YogaHouseForLongitude(arg.positions[body], arg.houses)
                Holds(body, rule) ==
                    IF rule.keyword = "conjunction_Mars"
                    THEN /\ {body, "Mars"} \subseteq DOMAIN arg.positions
                         /\ House(body) = House("Mars")
                    ELSE /\ {body, "Jupiter"} \subseteq DOMAIN arg.positions
                         /\ (House(body) - House("Jupiter")) % 12 \in {0, 3, 9}
            IN  (\A c \in DOMAIN conditions :
                    conditions[c][2].keyword
                      \in {"conjunction_Mars", "kendra_from_Jupiter"}) =>
                    (Reported(arg.yogas[i])
                       <=> \A c \in DOMAIN conditions :
                              Holds(conditions[c][1], conditions[c][2]))

\* C30: a condition whose rule keyword is outside the supported vocabulary
\* never prevents detection: a yoga all of whose conditions carry
\* unrecognised keywords, or which has no conditions, is reported whenever
\* the bodies it names are present in the positions, while a condition naming
\* a body absent from the positions always makes the yoga not detected.
UnrecognisedRulesAreSatisfied ==
    (op = "detect" /\ pc = "done") =>
        \A i \in DOMAIN arg.yogas :
            LET conditions == arg.yogas[i].conditions
                named == { conditions[c][1] : c \in DOMAIN conditions }
                Recognised(rule) ==
                    \/ rule \in { [ keyword |-> "kendra_from_Jupiter", argument |-> None ],
                                  [ keyword |-> "conjunction_Mars", argument |-> None ],
                                  [ keyword |-> "is_combust", argument |-> << "" >> ] }
                    \/ rule.keyword \in { "lord_of_house", "in_trikona_from",
                                          "is_aspected_by" }
            IN  /\ (\A c \in DOMAIN conditions : ~Recognised(conditions[c][2])) =>
                      (Reported(arg.yogas[i]) <=> named \subseteq DOMAIN arg.positions)
                /\ ~(named \subseteq DOMAIN arg.positions) => ~Reported(arg.yogas[i])

\* C30's case: detect on a chart with Saturn and Rahu reported the yoga whose
\* two rules are not in the vocabulary and the yoga without conditions, and
\* not the yoga naming Pluto.
UnrecognisedYogaReported ==
    /\ op = "detect" /\ pc = "done"
    /\ {"Saturn", "Rahu"} \subseteq DOMAIN arg.positions
    /\ \E k \in DOMAIN ret : ret[k].Yoga = "Unrecognised"
    /\ \E k \in DOMAIN ret : ret[k].Yoga = "No conditions"
    /\ \A k \in DOMAIN ret : ret[k].Yoga # "Absent body"
    /\ \E i \in DOMAIN arg.yogas : arg.yogas[i].name = "Absent body"

\* C29: whenever the cusp mapping contains a "House 1" entry,
\* StrengthCalculator and YogaDetector number houses from that cusp: the
\* house of longitude x is floor(((x - House 1) mod 360) / 30) + 1, in
\* 1 .. 12, also when the House 1 cusp is exactly 0 degrees and the mapping's
\* "Asc" entry has a different value.
HousesNumberedFromHouseOne ==
    (op = "detect" /\ pc = "done" /\ "House 1" \in DOMAIN arg.houses) =>
        \A planet \in DOMAIN arg.positions :
            LET x == arg.positions[planet]
                house == (((x - arg.houses["House 1"]) % FullCircle) \div Deg(30)) + 1
            IN  /\ house \in 1 .. 12
                /\ YogaHouseForLongitude(x, arg.houses) = house
                /\ HouseForLongitude(arg.houses, x) = house

=============================================================================
